---- MODULE Spec2Model ----
(***************************************************************************)
(* A model of the FOMOSEARCH crawler (src/crawler.py), of the URL          *)
(* normaliser (src/utils_text.py), of the page store and its full-text     *)
(* index (src/db.py) and of the search engine (src/app.py).                *)
(*                                                                         *)
(* Text.  A URL is a sequence of text pieces.  A piece is either one of    *)
(* the punctuation characters the code looks at ("/", "#", "?", "&") or a  *)
(* run of text holding none of them at its ends: an origin (scheme and     *)
(* host), a path word, a parameter name with its "=", a file extension.    *)
(* The string operations of the code are modelled piece by piece.          *)
(***************************************************************************)
EXTENDS Integers, Sequences, FiniteSets, TLC

\* ------------------------------------------------------------------ bounds

\* max_pages of a run is drawn from 1..MaxPagesBound
MaxPagesBound == 2
\* max_workers of a run is drawn from 1..MaxWorkersBound
MaxWorkersBound == 2

\* --------------------------------------------------------- program constants

\* save_page: the least length of the trimmed content that is saved
MinContentLen == 100
\* save_page: title[:500]
MaxTitleLen == 500
\* save_page: content[:50000]
MaxStoredContentLen == 50000
\* crawl_single_url: new_urls[:20]
MaxNewUrls == 20

\* -------------------------------------------------------------- sequences

Min(a, b) == IF a <= b THEN a ELSE b

Range(s) == {s[i] : i \in 1..Len(s)}

\* s[:n]
Prefix(s, n) == SubSeq(s, 1, Min(n, Len(s)))

\* str.lower() on a piece: the pieces of the model that hold capitals
lower_piece(piece) ==
  CASE piece = "Java" -> "java"
    [] piece = "Python" -> "python"
    [] piece = "News" -> "news"
    [] OTHER -> piece

lower(text) == [k \in 1..Len(text) |-> lower_piece(text[k])]

\* ------------------------------------------------------------ utils_text.py

\* url.rstrip('/')
RECURSIVE rstrip_slash(_)
rstrip_slash(u) ==
  IF u # <<>> /\ u[Len(u)] = "/" THEN rstrip_slash(SubSeq(u, 1, Len(u) - 1)) ELSE u

\* the least index of a "#" in u, or Len(u) + 1
RECURSIVE first_hash(_, _)
first_hash(u, i) ==
  IF i > Len(u) THEN i ELSE IF u[i] = "#" THEN i ELSE first_hash(u, i + 1)

\* re.sub(r'#.*$', '', url)
strip_fragment(u) == SubSeq(u, 1, first_hash(u, 1) - 1)

tracking_params ==
  <<"utm_source=", "utm_medium=", "utm_campaign=", "utm_content=", "utm_term=">>

\* the end of the match of [^&]* that starts at index j
RECURSIVE skip_value(_, _)
skip_value(u, j) ==
  IF j > Len(u) \/ u[j] = "&" THEN j ELSE skip_value(u, j + 1)

\* re.sub(f'[?&]{param}=[^&]*', '', url): every match, left to right, is removed
RECURSIVE remove_param(_, _, _)
remove_param(u, p, i) ==
  IF i > Len(u) THEN <<>>
  ELSE IF u[i] \in {"?", "&"} /\ i < Len(u) /\ u[i + 1] = p
       THEN remove_param(u, p, skip_value(u, i + 2))
       ELSE <<u[i]>> \o remove_param(u, p, i + 1)

\* for param in tracking_params: url = re.sub(...)
RECURSIVE remove_tracking(_, _)
remove_tracking(u, k) ==
  IF k > Len(tracking_params) THEN u
  ELSE remove_tracking(remove_param(u, tracking_params[k], 1), k + 1)

\* re.sub(r'[?&]$', '', url)
strip_dangling(u) ==
  IF u # <<>> /\ u[Len(u)] \in {"?", "&"} THEN SubSeq(u, 1, Len(u) - 1) ELSE u

normalize_url(u) ==
  IF u = <<>> THEN u
  ELSE strip_dangling(remove_tracking(strip_fragment(rstrip_slash(u)), 1))

\* ---------------------------------------------------------------- the web

\* The pieces a URL of the model is made of.  An origin is a scheme with a host.
Origins == {"https://a.com", "https://facebook.com", "https://b.io"}

\* (scheme, netloc) of an origin, as urlparse splits it
scheme_of(o) ==
  IF o \in {"https://a.com", "https://facebook.com", "https://b.io"} THEN "https" ELSE ""

netloc_of(o) ==
  CASE o = "https://a.com" -> "a.com"
    [] o = "https://facebook.com" -> "facebook.com"
    [] o = "https://b.io" -> "b.io"
    [] OTHER -> ""

\* urlparse(url).scheme and .netloc: a URL of the model starts with its origin
url_scheme(u) == IF u # <<>> /\ u[1] \in Origins THEN scheme_of(u[1]) ELSE ""

url_netloc(u) == IF u # <<>> /\ u[1] \in Origins THEN netloc_of(u[1]) ELSE ""

\* seed URLs as get_seed_urls writes them: each ends in a slash
SeedA == <<"https://a.com", "/">>
SeedDocs == <<"https://a.com", "/", "docs", "/">>
SeedNews == <<"https://a.com", "/", "news", "/">>

\* a page of links: a seed whose page carries more anchors than
\* crawl_single_url returns
SeedHub == <<"https://a.com", "/", "links", "/">>

\* anchors (href values, already absolute) that the pages of the model carry
HrefA == <<"https://a.com", "/">>
HrefNewsTop == <<"https://a.com", "/", "news", "/", "#", "top">>
HrefPdf == <<"https://a.com", "/", "paper", ".pdf">>
HrefSocial == <<"https://facebook.com", "/", "share">>

\* the anchor lists a fetched page may carry, in document order
HrefLists == {<<>>, <<HrefA, HrefPdf>>, <<HrefNewsTop, HrefSocial>>}

\* the names of the pages the page of links points to
HubNames ==
  <<"p01", "p02", "p03", "p04", "p05", "p06", "p07", "p08", "p09", "p10", "p11",
    "p12", "p13", "p14", "p15", "p16", "p17", "p18", "p19", "p20", "p21">>

\* the anchors of the page of links, in document order: two that is_valid_url
\* turns down, then one for each name, the first with a fragment
HubAnchors ==
  <<HrefPdf, HrefSocial, <<"https://a.com", "/", "p01", "#", "top">>>>
    \o [k \in 1..(Len(HubNames) - 1) |-> <<"https://a.com", "/", HubNames[k + 1]>>]

\* Text values.  A title is [text, len]; a content is [text, lead, chars]: lead
\* whitespace characters followed by chars characters that start and end with a
\* non-blank one, so that len(content) = lead + chars and
\* len(content.strip()) = chars.
Title(t, n) == [text |-> t, len |-> n]

Content(t, l, c) == [text |-> t, lead |-> l, chars |-> c]

\* --------------------------------------------------------------- crawler.py

HighKeywords == {"news", "blog", "article", "2024", "2023"}

MediumKeywords == {"docs", "tutorial", "guide", "learn"}

\* keyword in url_lower: the keywords a piece in lower case holds.  A keyword
\* lies within one piece; the pieces that hold one without being one are named.
keywords_in(piece) ==
  CASE piece = "newsletter" -> {"news"}
    [] piece = "learning" -> {"learn"}
    [] OTHER -> {piece} \cap (HighKeywords \cup MediumKeywords)

\* get_priority with the two tests in the other order
get_priority_medium_first(u) ==
  LET url_lower == lower(u)
      found == UNION {keywords_in(url_lower[i]) : i \in 1..Len(url_lower)}
  IN  IF found \cap MediumKeywords # {} THEN "medium"
      ELSE IF found \cap HighKeywords # {} THEN "high"
      ELSE "low"

get_priority(u) ==
  LET url_lower == lower(u)
      found == UNION {keywords_in(url_lower[i]) : i \in 1..Len(url_lower)}
  IN  IF found \cap HighKeywords # {} THEN "high"
      ELSE IF found \cap MediumKeywords # {} THEN "medium"
      ELSE "low"

skip_extensions ==
  {".pdf", ".jpg", ".jpeg", ".png", ".gif", ".svg", ".zip", ".exe", ".dmg", ".iso",
   ".mp4", ".avi", ".mp3", ".wav", ".doc", ".docx", ".xls", ".xlsx"}

skip_domains ==
  {"facebook.com", "twitter.com", "instagram.com", "linkedin.com", "pinterest.com",
   "youtube.com"}

\* The netloc of a URL of the model holds a skipped domain only when it is that
\* domain; an extension is the last piece of a URL.
is_valid_url(u) ==
  /\ url_scheme(u) # ""
  /\ url_netloc(u) # ""
  /\ ~(u # <<>> /\ u[Len(u)] \in skip_extensions)
  /\ url_netloc(u) \notin skip_domains
  /\ url_scheme(u) \in {"http", "https"}

\* extract_content_and_links: the links of a page, from its anchors in document order
RECURSIVE extract_links(_)
extract_links(hrefs) ==
  IF hrefs = <<>> THEN <<>>
  ELSE LET full_url == normalize_url(Head(hrefs))
       IN  (IF is_valid_url(full_url) THEN <<full_url>> ELSE <<>>)
             \o extract_links(Tail(hrefs))

\* -------------------------------------------------------------------- db.py

\* CREATE TABLE pages (...): the columns a row of pages can be read by
pages_columns == {"id", "url", "title", "content", "crawled_at", "status_code"}

\* CREATE VIRTUAL TABLE pages_fts USING fts5(page_id, title, content,
\* content='pages', content_rowid='id'): an external-content index.  It stores
\* the terms of what is inserted; a read of one of its columns is a read of the
\* column of that name in pages.
pages_fts_columns == {"page_id", "title", "content"}

\* whether reading the columns of pages_fts succeeds
pages_fts_readable == pages_fts_columns \subseteq pages_columns

\* url TEXT NOT NULL, without UNIQUE
no_unique_constraint(ps, url) == FALSE

\* url TEXT UNIQUE NOT NULL: whether a row with this url breaks the constraint

unique_violation(ps, url) == \E p \in ps : p.url = url

\* the rowid an insert into pages_fts gets when it names none
fts_next_rowid(fts) ==
  IF fts = {} THEN 1
  ELSE (CHOOSE r \in {e.rowid : e \in fts} : \A e \in fts : e.rowid <= r) + 1

\* a store whose INSERT on pages adds nothing to the index
no_insert_trigger(fts, new) == fts

\* CREATE TRIGGER pages_fts_insert AFTER INSERT ON pages
pages_fts_insert(fts, new) ==
  fts \cup {[rowid |-> fts_next_rowid(fts), page_id |-> new.id,
             title |-> new.title, content |-> new.content]}

\* CREATE TRIGGER pages_fts_delete AFTER DELETE ON pages:
\* DELETE FROM pages_fts WHERE page_id = old.id reads the column page_id
pages_fts_delete(fts, old) == {e \in fts : e.page_id # old.id}

\* DELETE FROM pages with no trigger run
deletes_without_its_index(ps, fts) == [pages |-> {}, fts |-> fts, raised |-> FALSE]

\* DELETE FROM pages.  With a row to delete the trigger runs; when its statement
\* raises, the DELETE is undone as a whole and the error reaches the caller.
delete_from_pages(ps, fts) ==
  IF ps = {} THEN [pages |-> {}, fts |-> fts, raised |-> FALSE]
  ELSE IF ~pages_fts_readable THEN [pages |-> ps, fts |-> fts, raised |-> TRUE]
  ELSE [pages |-> {},
        fts |-> {e \in fts : \A p \in ps : e \in pages_fts_delete(fts, p)},
        raised |-> FALSE]

\* ------------------------------------------------------- crawler.py: save_page

\* len(content.strip()) <= 100
too_short_off_by_one(content) == content.chars <= MinContentLen

\* save_page without its length test
accepts_any_length(content) == FALSE

\* len(content.strip()) < 100

too_short(content) == content.chars < MinContentLen

\* title[:500]
stored_title(title) == [title EXCEPT !.len = Min(title.len, MaxTitleLen)]

\* content[:50000]
stored_content(content) ==
  LET lead == Min(content.lead, MaxStoredContentLen)
  IN  [content EXCEPT !.lead = lead,
                      !.chars = Min(content.chars, MaxStoredContentLen - lead)]

\* the row INSERT INTO pages (url, title, content, status_code) adds; id is
\* AUTOINCREMENT: one more than the largest id ever given
new_page(seq, url, title, content) ==
  [id |-> seq + 1, url |-> url, title |-> stored_title(title),
   content |-> stored_content(content)]

\* ------------------------------------------------------------------- state

VARIABLES
  max_workers,           \* MassiveCrawler.max_workers
  max_pages,             \* MassiveCrawler.max_pages
  seeds,                 \* what get_seed_urls returns
  crawled_urls,          \* MassiveCrawler.crawled_urls
  failed_urls,           \* MassiveCrawler.failed_urls
  robots_cache,          \* MassiveCrawler.robots_cache: netloc -> allowed
  high_priority_queue,   \* MassiveCrawler.high_priority_queue
  medium_priority_queue, \* MassiveCrawler.medium_priority_queue
  low_priority_queue,    \* MassiveCrawler.low_priority_queue
  stats,                 \* MassiveCrawler.stats
  pages,                 \* the rows of table pages
  pages_fts,             \* the entries of the index pages_fts
  page_seq,              \* the largest pages.id ever given (AUTOINCREMENT)
  phase,                 \* where run_massive_crawl is
  batch_left,            \* iterations left of "for _ in range(batch_size)"
  batch_budget,          \* history: max_pages - len(crawled_urls) when the batch was formed
  events,                \* history: what has happened to the crawler object so far
  tasks,                 \* futures: the calls of crawl_single_url of the batch
  harvest,               \* the future and the new_url the as_completed loop is at
  get_count,             \* history: url -> number of session.get(url) issued
  true_saves,            \* history: the save_page calls that returned True
  all_benign,            \* history: every fetch so far gave a savable page without links
  clear_raised,          \* whether the last clear_database raised
  n_calls,               \* the number of save_page calls made on the store so far
  typed,                 \* the tokens the query string of the request is made of
  request,               \* the arguments of AdvancedSearchEngine.search
  index_matches,         \* how many rows of the index match the request's query
  operators,             \* search: what parse_search_query returned
  built,                 \* search: what build_search_query returned
  total_results,         \* search: what the count query returned
  result,                \* what search returned
  search_pc,             \* where the call of search is
  given_url,             \* the URL a function of URLs is called with
  returned               \* what the calls made with it have returned, in order

vars ==
  <<max_workers, max_pages, seeds, crawled_urls, failed_urls, robots_cache,
    high_priority_queue, medium_priority_queue, low_priority_queue, stats, pages,
    pages_fts, page_seq, phase, batch_left, batch_budget, events, tasks, harvest,
    get_count, true_saves,
    all_benign, clear_raised, n_calls, typed, request, index_matches, operators,
    built, total_results, result, search_pc, given_url, returned>>

\* the state of the search engine (app.py)
search_state ==
  <<typed, request, index_matches, operators, built, total_results, result, search_pc>>

\* the argument and the results of the calls of a function of URLs
call_state == <<given_url, returned>>

\* the state of the crawler and of the store it fills
crawl_state ==
  <<max_workers, max_pages, seeds, crawled_urls, failed_urls, robots_cache,
    high_priority_queue, medium_priority_queue, low_priority_queue, stats, pages,
    pages_fts, page_seq, phase, batch_left, batch_budget, events, tasks, harvest,
    get_count, true_saves,
    all_benign, clear_raised, n_calls>>

config == <<max_workers, max_pages, seeds>>

queues == <<high_priority_queue, medium_priority_queue, low_priority_queue>>

store == <<pages, pages_fts, page_seq>>

\* The seed list of get_seed_urls is 34 URLs, each ending in a slash, of all three
\* priorities, "https://stackoverflow.com/" twice.  The model runs it cut down
\* to lists of that shape, and lists without a repeated URL.
SeedLists ==
  {<<SeedA>>, <<SeedA, SeedA>>, <<SeedA, SeedDocs>>, <<SeedA, SeedDocs, SeedNews>>,
   <<SeedA, SeedDocs, SeedNews, SeedA>>}

get_seed_urls == SeedLists

NoText == [text |-> "", len |-> 0]

NoContent == [text |-> "", lead |-> 0, chars |-> 0]

\* a future of the batch: a call of crawl_single_url(url).  pc is where the call
\* is, tmp a counter value it has read, saved how its save_page call ended
\* ("true": returned True; "short", "exists", "integrity": returned False),
\* hrefs the anchors of the page it was given by fetch_url, ret its return value
Task(url) ==
  [url |-> url, pc |-> "queued", title |-> NoText, content |-> NoContent,
   hrefs |-> <<>>, links |-> <<>>, tmp |-> 0, saved |-> "none", ret |-> <<>>]

NoHarvest == [fut |-> 0, pos |-> 0, checked |-> FALSE]

InitStats == [crawled |-> 0, failed |-> 0, duplicates |-> 0, robots_blocked |-> 0]

\* runs: the calls of run_massive_crawl begun on the object; raised: the calls of
\* fetch_url that ended in its except branch; blocked: the calls of fetch_url
\* that check_robots_txt turned away
NoEvents == [runs |-> 0, raised |-> 0, blocked |-> 0]

\* no search has been asked for
NoSearch ==
  /\ typed = <<>>
  /\ request = <<>>
  /\ index_matches = 0
  /\ operators = <<>>
  /\ built = <<>>
  /\ total_results = 0
  /\ result = <<>>
  /\ search_pc = "none"

\* no function of URLs is called on its own
NoCall ==
  /\ given_url = <<>>
  /\ returned = <<>>

\* MassiveCrawler.__init__, on a store that init_db has just created
InitCrawler(worker_counts, budgets, seed_lists) ==
  /\ NoSearch
  /\ NoCall
  /\ max_workers \in worker_counts
  /\ max_pages \in budgets
  /\ seeds \in seed_lists
  /\ crawled_urls = {}
  /\ failed_urls = {}
  /\ robots_cache = <<>>
  /\ high_priority_queue = <<>>
  /\ medium_priority_queue = <<>>
  /\ low_priority_queue = <<>>
  /\ stats = InitStats
  /\ pages = {}
  /\ pages_fts = {}
  /\ page_seq = 0
  /\ phase = "seeding"
  /\ batch_left = 0
  /\ batch_budget = 0
  /\ events = NoEvents
  /\ tasks = <<>>
  /\ harvest = NoHarvest
  /\ get_count = <<>>
  /\ true_saves = <<>>
  /\ all_benign = TRUE
  /\ clear_raised = FALSE
  /\ n_calls = 0

Init == InitCrawler(1..MaxWorkersBound, 1..MaxPagesBound, get_seed_urls)

\* ------------------------------------------------------- crawler.py: frontier

\* The frontier as one value: the three queues and stats['duplicates'].
Frontier(h, m, l, d) == [high |-> h, medium |-> m, low |-> l, duplicates |-> d]

\* add_url_to_queue without its test of crawled_urls
add_url_to_queue_untested(fr, crawled, url) ==
  LET priority == get_priority(url)
  IN  IF priority = "high" THEN [fr EXCEPT !.high = Append(@, url)]
      ELSE IF priority = "medium" THEN [fr EXCEPT !.medium = Append(@, url)]
      ELSE [fr EXCEPT !.low = Append(@, url)]

\* add_url_to_queue, given the crawled_urls it reads
add_url_to_queue(fr, crawled, url) ==
  IF url \in crawled THEN [fr EXCEPT !.duplicates = @ + 1]
  ELSE LET priority == get_priority(url)
       IN  IF priority = "high" THEN [fr EXCEPT !.high = Append(@, url)]
           ELSE IF priority = "medium" THEN [fr EXCEPT !.medium = Append(@, url)]
           ELSE [fr EXCEPT !.low = Append(@, url)]

\* for url in self.get_seed_urls(): self.add_url_to_queue(url)
RECURSIVE add_seeds(_, _, _)
add_seeds(fr, crawled, urls) ==
  IF urls = <<>> THEN fr
  ELSE add_seeds(add_url_to_queue(fr, crawled, Head(urls)), crawled, Tail(urls))

\* get_next_url looking at the medium queue first
get_next_url_medium_first(h, m, l) ==
  IF m # <<>> THEN [url |-> Head(m), high |-> h, medium |-> Tail(m), low |-> l]
  ELSE IF h # <<>> THEN [url |-> Head(h), high |-> Tail(h), medium |-> m, low |-> l]
  ELSE IF l # <<>> THEN [url |-> Head(l), high |-> h, medium |-> m, low |-> Tail(l)]
  ELSE [url |-> <<>>, high |-> h, medium |-> m, low |-> l]

\* get_next_url taking two entries off the high queue and returning the first
get_next_url_pops_twice(h, m, l) ==
  IF h # <<>>
  THEN [url |-> Head(h), high |-> IF Len(h) > 1 THEN Tail(Tail(h)) ELSE Tail(h),
        medium |-> m, low |-> l]
  ELSE IF m # <<>> THEN [url |-> Head(m), high |-> h, medium |-> Tail(m), low |-> l]
  ELSE IF l # <<>> THEN [url |-> Head(l), high |-> h, medium |-> m, low |-> Tail(l)]
  ELSE [url |-> <<>>, high |-> h, medium |-> m, low |-> l]

\* get_next_url returning the head of a queue without removing it
get_next_url_keeps_entry(h, m, l) ==
  IF h # <<>> THEN [url |-> Head(h), high |-> h, medium |-> m, low |-> l]
  ELSE IF m # <<>> THEN [url |-> Head(m), high |-> h, medium |-> m, low |-> l]
  ELSE IF l # <<>> THEN [url |-> Head(l), high |-> h, medium |-> m, low |-> l]
  ELSE [url |-> <<>>, high |-> h, medium |-> m, low |-> l]

\* get_next_url: the URL returned (<<>> stands for None) and the queues left
get_next_url(h, m, l) ==
  IF h # <<>> THEN [url |-> Head(h), high |-> Tail(h), medium |-> m, low |-> l]
  ELSE IF m # <<>> THEN [url |-> Head(m), high |-> h, medium |-> Tail(m), low |-> l]
  ELSE IF l # <<>> THEN [url |-> Head(l), high |-> h, medium |-> m, low |-> Tail(l)]
  ELSE [url |-> <<>>, high |-> h, medium |-> m, low |-> l]

\* ------------------------------------------- crawler.py: run_massive_crawl

SetFrontier(fr) ==
  /\ high_priority_queue' = fr.high
  /\ medium_priority_queue' = fr.medium
  /\ low_priority_queue' = fr.low
  /\ stats' = [stats EXCEPT !.duplicates = fr.duplicates]

CurrentFrontier ==
  Frontier(high_priority_queue, medium_priority_queue, low_priority_queue,
           stats.duplicates)

\* the seeding loop; no worker runs yet
Seed ==
  /\ phase = "seeding"
  /\ SetFrontier(add_seeds(CurrentFrontier, crawled_urls, seeds))
  /\ phase' = "loop"
  /\ events' = [events EXCEPT !.runs = @ + 1]
  /\ UNCHANGED <<config, search_state, call_state, crawled_urls, failed_urls,
                 robots_cache, store, batch_left, batch_budget, tasks, harvest,
                 get_count, true_saves, all_benign, clear_raised, n_calls>>

AllHarvested == \A i \in 1..Len(tasks) : tasks[i].pc = "harvested"

\* max in the place of min
batch_size_takes_the_larger(workers, budget, crawled) ==
  IF workers * 2 >= budget - Cardinality(crawled) THEN workers * 2
  ELSE budget - Cardinality(crawled)

\* a batch of 2 * max_workers whatever is left of the budget
batch_size_ignores_budget(workers, budget, crawled) == workers * 2

\* min(self.max_workers * 2, self.max_pages - len(self.crawled_urls))
batch_size(workers, budget, crawled) == Min(workers * 2, budget - Cardinality(crawled))

\* the test of the while loop, taken when the as_completed loop of the batch
\* before has ended, and the batch size
Loop ==
  /\ \/ phase = "loop"
     \/ phase = "harvest" /\ harvest.fut = 0 /\ AllHarvested
  /\ IF /\ Cardinality(crawled_urls) < max_pages
        /\ (high_priority_queue # <<>> \/ medium_priority_queue # <<>>
              \/ low_priority_queue # <<>>)
     THEN /\ phase' = "submit"
          /\ batch_left' = batch_size(max_workers, max_pages, crawled_urls)
          /\ batch_budget' = max_pages - Cardinality(crawled_urls)
     ELSE /\ phase' = "done"
          /\ batch_left' = 0
          /\ batch_budget' = 0
  /\ tasks' = <<>>
  /\ UNCHANGED <<config, search_state, call_state, events, crawled_urls, failed_urls,
                 robots_cache, queues, stats, store, harvest, get_count, true_saves,
                 all_benign, clear_raised, n_calls>>

\* one iteration of "for _ in range(batch_size)": get_next_url, then break or
\* executor.submit; after the last one, "if not futures: break"
Submit ==
  /\ phase = "submit"
  /\ LET next == get_next_url(high_priority_queue, medium_priority_queue,
                              low_priority_queue)
     IN  IF next.url = <<>>
         THEN /\ phase' = IF tasks = <<>> THEN "done" ELSE "harvest"
              /\ batch_left' = 0
              /\ UNCHANGED <<queues, tasks>>
         ELSE /\ high_priority_queue' = next.high
              /\ medium_priority_queue' = next.medium
              /\ low_priority_queue' = next.low
              /\ tasks' = Append(tasks, Task(next.url))
              /\ batch_left' = batch_left - 1
              /\ phase' = IF batch_left = 1 THEN "harvest" ELSE "submit"
  /\ UNCHANGED <<config, search_state, call_state, events, batch_budget, crawled_urls,
                 failed_urls, robots_cache, stats, store, harvest, get_count,
                 true_saves, all_benign, clear_raised, n_calls>>

\* the as_completed loop moves on: to the next new_url of the future, or past it
Advance(f, pos) ==
  IF pos > Len(tasks[f].ret)
  THEN /\ tasks' = [tasks EXCEPT ![f].pc = "harvested"]
       /\ harvest' = NoHarvest
  ELSE /\ harvest' = [fut |-> f, pos |-> pos, checked |-> FALSE]
       /\ UNCHANGED tasks

\* as_completed yields a future that is done
HarvestNext(f) ==
  /\ phase = "harvest"
  /\ harvest.fut = 0
  /\ tasks[f].pc = "finished"
  /\ Advance(f, 1)
  /\ UNCHANGED <<config, search_state, call_state, events, crawled_urls, failed_urls,
                 robots_cache, queues, stats, store, phase, batch_left, batch_budget,
                 get_count, true_saves, all_benign, clear_raised, n_calls>>

\* if len(self.crawled_urls) < self.max_pages
HarvestCheck ==
  /\ phase = "harvest"
  /\ harvest.fut # 0
  /\ ~harvest.checked
  /\ IF Cardinality(crawled_urls) < max_pages
     THEN /\ harvest' = [harvest EXCEPT !.checked = TRUE]
          /\ UNCHANGED tasks
     ELSE Advance(harvest.fut, harvest.pos + 1)
  /\ UNCHANGED <<config, search_state, call_state, events, crawled_urls, failed_urls,
                 robots_cache, queues, stats, store, phase, batch_left, batch_budget,
                 get_count, true_saves, all_benign, clear_raised, n_calls>>

\* self.add_url_to_queue(new_url)
HarvestAdd ==
  /\ phase = "harvest"
  /\ harvest.fut # 0
  /\ harvest.checked
  /\ SetFrontier(add_url_to_queue(CurrentFrontier, crawled_urls,
                                  tasks[harvest.fut].ret[harvest.pos]))
  /\ Advance(harvest.fut, harvest.pos + 1)
  /\ UNCHANGED <<config, search_state, call_state, events, crawled_urls, failed_urls,
                 robots_cache, store, phase, batch_left, batch_budget, get_count,
                 true_saves, all_benign, clear_raised, n_calls>>

\* -------------------------------------------- crawler.py: crawl_single_url

\* the futures a thread of the pool is running
Running == {i \in 1..Len(tasks) : tasks[i].pc \notin {"queued", "finished", "harvested"}}

Finish(i, ret) == [tasks EXCEPT ![i].pc = "finished", ![i].ret = ret]

Bump(f, k) == IF k \in DOMAIN f THEN [f EXCEPT ![k] = @ + 1] ELSE (k :> 1) @@ f

\* if url in self.crawled_urls or len(self.crawled_urls) >= self.max_pages
already_claimed_or_full(url, crawled, budget) ==
  url \in crawled \/ Cardinality(crawled) >= budget

\* A free thread of the pool takes the oldest queued future and runs the test
\* at the head of crawl_single_url.  (crawled_urls only grows, so the two reads
\* of the test give what one read of both gives: at the first read when the
\* call goes on, at the second when it returns.)
TaskCheck(i) ==
  /\ phase \in {"submit", "harvest"}
  /\ tasks[i].pc = "queued"
  /\ \A j \in 1..(i - 1) : tasks[j].pc # "queued"
  /\ Cardinality(Running) < max_workers
  /\ IF already_claimed_or_full(tasks[i].url, crawled_urls, max_pages)
     THEN tasks' = Finish(i, <<>>)
     ELSE tasks' = [tasks EXCEPT ![i].pc = "claim"]
  /\ UNCHANGED <<config, search_state, call_state, events, crawled_urls, failed_urls,
                 robots_cache, queues, stats, store, phase, batch_left, batch_budget,
                 harvest, get_count, true_saves, all_benign, clear_raised, n_calls>>

\* self.crawled_urls.add(url)
TaskClaim(i) ==
  /\ tasks[i].pc = "claim"
  /\ crawled_urls' = crawled_urls \cup {tasks[i].url}
  /\ tasks' = [tasks EXCEPT ![i].pc = "robots"]
  /\ UNCHANGED <<config, search_state, call_state, events, failed_urls,
                 robots_cache, queues, stats, store, phase, batch_left, batch_budget,
                 harvest, get_count, true_saves, all_benign, clear_raised, n_calls>>

\* fetch_url, check_robots_txt: if domain in self.robots_cache
TaskRobots(i) ==
  /\ tasks[i].pc = "robots"
  /\ LET domain == url_netloc(tasks[i].url)
     IN  tasks' = [tasks EXCEPT ![i].pc =
                     IF domain \notin DOMAIN robots_cache THEN "robots_read"
                     ELSE IF robots_cache[domain] THEN "get" ELSE "blocked"]
  /\ UNCHANGED <<config, search_state, call_state, events, crawled_urls, failed_urls,
                 robots_cache, queues, stats, store, phase, batch_left, batch_budget,
                 harvest, get_count, true_saves, all_benign, clear_raised, n_calls>>

\* what rp.read() and rp.can_fetch() come to
RobotsOutcomes == {"allow", "deny", "error"}

\* check_robots_txt on a cache miss: the answer is cached unless an exception
\* was raised, and then the URL counts as allowed
TaskRobotsRead(i, outcome) ==
  /\ tasks[i].pc = "robots_read"
  /\ robots_cache' =
       IF outcome = "error" THEN robots_cache
       ELSE [d \in DOMAIN robots_cache \cup {url_netloc(tasks[i].url)} |->
               IF d = url_netloc(tasks[i].url) THEN outcome = "allow"
               ELSE robots_cache[d]]
  /\ tasks' = [tasks EXCEPT ![i].pc = IF outcome = "deny" THEN "blocked" ELSE "get"]
  /\ all_benign' = (all_benign /\ outcome # "deny")
  /\ UNCHANGED <<config, search_state, call_state, events, crawled_urls,
                 failed_urls, queues, stats, store, phase, batch_left, batch_budget,
                 harvest, get_count, true_saves, clear_raised, n_calls>>

\* self.stats['robots_blocked'] += 1: the read
TaskBlocked(i) ==
  /\ tasks[i].pc = "blocked"
  /\ tasks' = [tasks EXCEPT ![i].pc = "blocked_write", ![i].tmp = stats.robots_blocked]
  /\ all_benign' = FALSE
  /\ events' = [events EXCEPT !.blocked = @ + 1]
  /\ UNCHANGED <<config, search_state, call_state, crawled_urls, failed_urls,
                 robots_cache, queues, stats, store, phase, batch_left, batch_budget,
                 harvest, get_count, true_saves, clear_raised, n_calls>>

\* self.stats['robots_blocked'] += 1: the write; return None, and [] to the pool
TaskBlockedWrite(i) ==
  /\ tasks[i].pc = "blocked_write"
  /\ stats' = [stats EXCEPT !.robots_blocked = tasks[i].tmp + 1]
  /\ tasks' = [Finish(i, <<>>) EXCEPT ![i].tmp = 0]
  /\ UNCHANGED <<config, search_state, call_state, events, crawled_urls, failed_urls,
                 robots_cache, queues, store, phase, batch_left, batch_budget, harvest,
                 get_count, true_saves, all_benign, clear_raised, n_calls>>

\* What session.get(url) and the tests after it come to: an exception (network
\* error, timeout, HTTP error status), a response that is not HTML or is larger
\* than 5 MB, or an HTML page: its text after clean_html and its anchors.
\* A page without text is taken without anchors.
Responses ==
  {[kind |-> "error", chars |-> 0, hrefs |-> <<>>],
   [kind |-> "rejected", chars |-> 0, hrefs |-> <<>>],
   [kind |-> "html", chars |-> 0, hrefs |-> <<>>]}
    \cup [kind : {"html"}, chars : {50, 100}, hrefs : HrefLists]

\* what a GET of url may come to: the page of links is served with its anchors
PagesAt(url) ==
  Responses \cup (IF url = SeedHub
                  THEN {[kind |-> "html", chars |-> 100, hrefs |-> HubAnchors]}
                  ELSE {})

Benign(resp) == resp.kind = "html" /\ resp.chars >= MinContentLen /\ resp.hrefs = <<>>

\* extract_title_from_html gives a title that is not empty
PageTitle == Title("page", 10)

\* clean_html ends in text.strip(): no blank at either end
PageContent(n) == Content(IF n = 0 THEN "" ELSE "body", 0, n)

\* return new_urls
returned_links_uncapped(new_urls) == new_urls

\* new_urls[:20]
returned_links(new_urls) == Prefix(new_urls, MaxNewUrls)

\* save_page(url, title, content) called by the future i, up to its first step
\* that reads the store: "if len(content.strip()) < 100: return False"
BeginSave(ts, i, title, content, new_urls) ==
  IF too_short(content)
  THEN [ts EXCEPT ![i].pc = "finished", ![i].ret = returned_links(new_urls),
                  ![i].saved = "short"]
  ELSE [ts EXCEPT ![i].pc = "select", ![i].title = title, ![i].content = content,
                  ![i].links = new_urls]

\* session.get and what follows it up to the first step of save_page that reads
\* the store: the except branch up to the read of stats['failed']; the tests of
\* content type and length; extract_content_and_links; "if clean_content and
\* title"; the length test of save_page
TaskGet(i, resp) ==
  /\ tasks[i].pc = "get"
  /\ get_count' = Bump(get_count, tasks[i].url)
  /\ all_benign' = (all_benign /\ Benign(resp))
  /\ events' = IF resp.kind = "error" THEN [events EXCEPT !.raised = @ + 1] ELSE events
  /\ LET new_urls == extract_links(resp.hrefs)
         clean_content == PageContent(resp.chars)
     IN  CASE resp.kind = "error" ->
                /\ failed_urls' = failed_urls \cup {tasks[i].url}
                /\ tasks' = [tasks EXCEPT ![i].pc = "failed_write", ![i].tmp = stats.failed]
            [] resp.kind = "rejected" ->
                /\ tasks' = [tasks EXCEPT ![i].pc = "rejected"]
                /\ UNCHANGED failed_urls
            [] OTHER ->
                /\ UNCHANGED failed_urls
                /\ LET parsed == [tasks EXCEPT ![i].hrefs = resp.hrefs]
                   IN  IF clean_content.chars = 0
                       THEN tasks' = [parsed EXCEPT ![i].pc = "finished",
                                                    ![i].ret = returned_links(new_urls)]
                       ELSE tasks' = BeginSave(parsed, i, PageTitle, clean_content,
                                               new_urls)
  /\ UNCHANGED <<config, search_state, call_state, crawled_urls, robots_cache, queues,
                 stats, store, phase, batch_left, batch_budget, harvest, true_saves,
                 clear_raised, n_calls>>

\* "if 'text/html' not in content_type: return None" and "if len(response.content)
\* > 5 * 1024 * 1024: return None": no counter is touched; [] goes to the pool
TaskRejected(i) ==
  /\ tasks[i].pc = "rejected"
  /\ tasks' = Finish(i, <<>>)
  /\ UNCHANGED <<config, search_state, call_state, events, crawled_urls, failed_urls,
                 robots_cache, queues, stats, store, phase, batch_left, batch_budget,
                 harvest, get_count, true_saves, all_benign, clear_raised, n_calls>>

\* self.stats['failed'] += 1: the write; return None, and [] to the pool
TaskFailedWrite(i) ==
  /\ tasks[i].pc = "failed_write"
  /\ stats' = [stats EXCEPT !.failed = tasks[i].tmp + 1]
  /\ tasks' = [Finish(i, <<>>) EXCEPT ![i].tmp = 0]
  /\ UNCHANGED <<config, search_state, call_state, events, crawled_urls, failed_urls,
                 robots_cache, queues, store, phase, batch_left, batch_budget, harvest,
                 get_count, true_saves, all_benign, clear_raised, n_calls>>

\* save_page returns False to crawl_single_url, which returns new_urls[:20]
SaveFalse(i, why) ==
  [Finish(i, returned_links(tasks[i].links)) EXCEPT
     ![i].saved = why, ![i].title = NoText, ![i].content = NoContent, ![i].links = <<>>]

\* save_page: SELECT id FROM pages WHERE url = ?; if existing: return False
TaskSelect(i) ==
  /\ tasks[i].pc = "select"
  /\ IF \E p \in pages : p.url = tasks[i].url
     THEN tasks' = SaveFalse(i, "exists")
     ELSE tasks' = [tasks EXCEPT ![i].pc = "insert"]
  /\ UNCHANGED <<config, search_state, call_state, events, crawled_urls, failed_urls,
                 robots_cache, queues, stats, store, phase, batch_left, batch_budget,
                 harvest, get_count, true_saves, all_benign, clear_raised, n_calls>>

\* save_page: INSERT INTO pages, with its trigger, and conn.commit(): one
\* transaction; except sqlite3.IntegrityError: return False
TaskInsert(i) ==
  /\ tasks[i].pc = "insert"
  /\ IF unique_violation(pages, tasks[i].url)
     THEN /\ tasks' = SaveFalse(i, "integrity")
          /\ UNCHANGED <<store, true_saves>>
     ELSE LET new == new_page(page_seq, tasks[i].url, tasks[i].title, tasks[i].content)
          IN  /\ pages' = pages \cup {new}
              /\ pages_fts' = pages_fts_insert(pages_fts, new)
              /\ page_seq' = new.id
              /\ true_saves' = Append(true_saves,
                                      [url |-> tasks[i].url, title |-> tasks[i].title,
                                       content |-> tasks[i].content])
              /\ tasks' = [tasks EXCEPT ![i].pc = "crawled_read", ![i].saved = "true",
                                        ![i].title = NoText, ![i].content = NoContent]
  /\ UNCHANGED <<config, search_state, call_state, events, crawled_urls, failed_urls,
                 robots_cache, queues, stats, phase, batch_left, batch_budget, harvest,
                 get_count, all_benign, clear_raised, n_calls>>

\* self.stats['crawled'] += 1: the read
TaskCrawledRead(i) ==
  /\ tasks[i].pc = "crawled_read"
  /\ tasks' = [tasks EXCEPT ![i].pc = "crawled_write", ![i].tmp = stats.crawled]
  /\ UNCHANGED <<config, search_state, call_state, events, crawled_urls, failed_urls,
                 robots_cache, queues, stats, store, phase, batch_left, batch_budget,
                 harvest, get_count, true_saves, all_benign, clear_raised, n_calls>>

\* self.stats['crawled'] += 1: the write; return new_urls[:20]
TaskCrawledWrite(i) ==
  /\ tasks[i].pc = "crawled_write"
  /\ stats' = [stats EXCEPT !.crawled = tasks[i].tmp + 1]
  /\ tasks' = [Finish(i, returned_links(tasks[i].links)) EXCEPT
                 ![i].tmp = 0, ![i].links = <<>>]
  /\ UNCHANGED <<config, search_state, call_state, events, crawled_urls, failed_urls,
                 robots_cache, queues, store, phase, batch_left, batch_budget, harvest,
                 get_count, true_saves, all_benign, clear_raised, n_calls>>

Worker(i) ==
  \/ TaskCheck(i)
  \/ TaskClaim(i)
  \/ TaskRobots(i)
  \/ \E outcome \in RobotsOutcomes : TaskRobotsRead(i, outcome)
  \/ TaskBlocked(i)
  \/ TaskBlockedWrite(i)
  \/ \E resp \in PagesAt(tasks[i].url) : TaskGet(i, resp)
  \/ TaskRejected(i)
  \/ TaskFailedWrite(i)
  \/ TaskSelect(i)
  \/ TaskInsert(i)
  \/ TaskCrawledRead(i)
  \/ TaskCrawledWrite(i)

Coordinator ==
  \/ Seed
  \/ Loop
  \/ Submit
  \/ \E f \in 1..Len(tasks) : HarvestNext(f)
  \/ HarvestCheck
  \/ HarvestAdd

Next == Coordinator \/ \E i \in 1..Len(tasks) : Worker(i)

Spec == Init /\ [][Next]_vars

\* One worker: the pool runs the futures of a batch one after the other.  Every
\* step of the run is taken in the end (a fetch returns, the thread is scheduled).
InitOneWorker == Init /\ max_workers = 1

SpecOneWorker == InitOneWorker /\ [][Next]_vars /\ WF_vars(Next)

\* Any number of workers: every step that can be taken is taken in the end (every
\* fetch returns, every thread of the pool is scheduled).
SpecFair == Init /\ [][Next]_vars /\ WF_vars(Next)

\* The process is interrupted (run_crawler.py main: except KeyboardInterrupt) or
\* killed: what the MassiveCrawler object held is gone, the store file stays.  A
\* transaction that was not committed is rolled back by SQLite, which is the
\* state before TaskInsert.
Interrupt ==
  /\ phase \in {"seeding", "loop", "submit", "harvest", "done"}
  /\ phase' = "interrupted"
  /\ crawled_urls' = {}
  /\ failed_urls' = {}
  /\ robots_cache' = <<>>
  /\ high_priority_queue' = <<>>
  /\ medium_priority_queue' = <<>>
  /\ low_priority_queue' = <<>>
  /\ stats' = InitStats
  /\ batch_left' = 0
  /\ batch_budget' = 0
  /\ tasks' = <<>>
  /\ harvest' = NoHarvest
  /\ UNCHANGED <<config, search_state, call_state, events, store, get_count, true_saves,
                 all_benign, clear_raised, n_calls>>

NextInterrupt == Next \/ Interrupt

SpecInterrupt == Init /\ [][NextInterrupt]_vars

\* the calls of run_massive_crawl made on one object
MaxRuns == 2

\* run_massive_crawl has returned and is called again on the same object: no
\* attribute of the object is assigned between the two calls
Rerun ==
  /\ phase = "done"
  /\ events.runs < MaxRuns
  /\ phase' = "seeding"
  /\ UNCHANGED <<config, search_state, call_state, events, crawled_urls, failed_urls,
                 robots_cache, queues, stats, store, batch_left, batch_budget, tasks,
                 harvest, get_count, true_saves, all_benign, clear_raised, n_calls>>

NextRerun == Next \/ Rerun

SpecRerun == Init /\ [][NextRerun]_vars

\* one worker on the page of links as the only seed: the page is crawled in the
\* first batch and its links are offered while the budget is not used up
InitManyLinks == InitCrawler({1}, {MaxPagesBound}, {<<SeedHub>>})

SpecManyLinks == InitManyLinks /\ [][Next]_vars

\* one worker with a budget of one page more, on the seed list of all three
\* priorities: two batches, the second with budget left after two claims
InitThreePages == InitCrawler({1}, {MaxPagesBound + 1}, {<<SeedA, SeedDocs, SeedNews>>})

SpecThreePages == InitThreePages /\ [][Next]_vars

\* ------------------------------------------------------------ the store alone

\* save_page and clear_database called on the store in any order by two
\* threads: each call is crawl_single_url's "if self.save_page(...):
\* self.stats['crawled'] += 1" with any url, title and content.

\* the number of save_page calls of a behaviour
MaxSaves == 3

StoreUrls == {SeedA, SeedDocs}

StoreTitles == {Title("one", 10), Title("two", 600)}

StoreContents ==
  {Content("short", 0, 50), Content("padded", 5, 99), Content("body", 0, 100),
   Content("other", 2, 150)}

Idle == [Task(<<>>) EXCEPT !.pc = "idle"]

InitStore ==
  /\ NoSearch
  /\ NoCall
  /\ max_workers = 2
  /\ max_pages = 1
  /\ seeds = <<>>
  /\ crawled_urls = {}
  /\ failed_urls = {}
  /\ robots_cache = <<>>
  /\ high_priority_queue = <<>>
  /\ medium_priority_queue = <<>>
  /\ low_priority_queue = <<>>
  /\ stats = InitStats
  /\ pages = {}
  /\ pages_fts = {}
  /\ page_seq = 0
  /\ phase = "store"
  /\ batch_left = 0
  /\ batch_budget = 0
  /\ events = NoEvents
  /\ tasks = <<Idle, Idle>>
  /\ harvest = NoHarvest
  /\ get_count = <<>>
  /\ true_saves = <<>>
  /\ all_benign = TRUE
  /\ clear_raised = FALSE
  /\ n_calls = 0

\* thread i calls save_page(url, title, content)
StoreCall(i, url, title, content) ==
  /\ phase = "store"
  /\ tasks[i].pc \in {"idle", "finished"}
  /\ n_calls < MaxSaves
  /\ n_calls' = n_calls + 1
  /\ tasks' = BeginSave([tasks EXCEPT ![i] = Task(url)], i, title, content, <<>>)
  /\ UNCHANGED <<config, search_state, call_state, events, crawled_urls, failed_urls,
                 robots_cache, queues, stats, store, phase, batch_left, batch_budget,
                 harvest, get_count, true_saves, all_benign, clear_raised>>

\* clear_database: DELETE FROM pages; conn.commit()
Clear ==
  /\ phase = "store"
  /\ LET r == delete_from_pages(pages, pages_fts)
     IN  /\ pages' = r.pages
         /\ pages_fts' = r.fts
         /\ clear_raised' = r.raised
  /\ UNCHANGED <<config, search_state, call_state, events, crawled_urls, failed_urls,
                 robots_cache, queues, stats, page_seq, phase, batch_left, batch_budget,
                 tasks, harvest, get_count, true_saves, all_benign, n_calls>>

StoreStep(i) ==
  \/ \E url \in StoreUrls, title \in StoreTitles, content \in StoreContents :
       StoreCall(i, url, title, content)
  \/ TaskSelect(i)
  \/ TaskInsert(i)
  \/ TaskCrawledRead(i)
  \/ TaskCrawledWrite(i)

NextStore == Clear \/ \E i \in 1..Len(tasks) : StoreStep(i)

SpecStore == InitStore /\ [][NextStore]_vars

\* ------------------------------------------------ app.py: parse_search_query

\* A query string is a sequence of pieces: a piece is a double quote, a hyphen,
\* a blank, a colon, a dot, or a run of word characters (\w).  A run of word
\* characters is written as one piece, but a run that ends in an operator name
\* before a colon is written with the name as a piece of its own ("website:"
\* is <<"web", "site", ":">>), so that the literal text of a pattern is found
\* wherever the characters are.
Quote == "\""

Punctuation == {Quote, "-", " ", ":", "."}

\* the character classes of the patterns: \w, \S and [^"]
in_class(cls, piece) ==
  CASE cls = "\\w" -> piece \notin Punctuation
    [] cls = "\\S" -> piece # " "
    [] cls = "[^\"]" -> piece # Quote

\* The patterns of parse_search_query: literal text, a greedy run of a class
\* (the group), of at least min characters, and literal text.  The pattern that
\* re.sub is given is the one re.findall or re.search is given, less the group.
Pattern(name) ==
  CASE name = "quoted" ->
         [open |-> <<Quote>>, cls |-> "[^\"]", min |-> 0, close |-> <<Quote>>]
    [] name = "exclude" -> [open |-> <<"-">>, cls |-> "\\w", min |-> 1, close |-> <<>>]
    [] name = "site" -> [open |-> <<"site", ":">>, cls |-> "\\S", min |-> 1, close |-> <<>>]
    [] name = "filetype" ->
         [open |-> <<"filetype", ":">>, cls |-> "\\w", min |-> 1, close |-> <<>>]
    [] name = "intitle" ->
         [open |-> <<"intitle", ":">>, cls |-> "\\w", min |-> 1, close |-> <<>>]
    [] name = "inurl" ->
         [open |-> <<"inurl", ":">>, cls |-> "\\w", min |-> 1, close |-> <<>>]

\* the longest run of pieces of the class from q[i] on: its length
RECURSIVE run_length(_, _, _)
run_length(q, i, cls) ==
  IF i <= Len(q) /\ in_class(cls, q[i]) THEN 1 + run_length(q, i + 1, cls) ELSE 0

starts_with(q, i, text) ==
  i + Len(text) - 1 <= Len(q) /\ SubSeq(q, i, i + Len(text) - 1) = text

\* the match of the pattern that starts at q[i]: its length (0: there is none)
\* and its group
match_at(name, q, i) ==
  LET pattern == Pattern(name)
      from == i + Len(pattern.open)
      n == run_length(q, from, pattern.cls)
  IN  IF /\ starts_with(q, i, pattern.open)
         /\ n >= pattern.min
         /\ starts_with(q, from + n, pattern.close)
      THEN [len |-> Len(pattern.open) + n + Len(pattern.close),
            group |-> SubSeq(q, from, from + n - 1)]
      ELSE [len |-> 0, group |-> <<>>]

\* re.findall(pattern, q): the groups of the matches, leftmost first, none
\* overlapping
RECURSIVE findall_from(_, _, _)
findall_from(name, q, i) ==
  IF i > Len(q) THEN <<>>
  ELSE LET m == match_at(name, q, i)
       IN  IF m.len > 0 THEN <<m.group>> \o findall_from(name, q, i + m.len)
           ELSE findall_from(name, q, i + 1)

re_findall(name, q) == findall_from(name, q, 1)

\* re.sub(pattern, '', q): q without its matches
RECURSIVE sub_from(_, _, _)
sub_from(name, q, i) ==
  IF i > Len(q) THEN <<>>
  ELSE LET m == match_at(name, q, i)
       IN  IF m.len > 0 THEN sub_from(name, q, i + m.len)
           ELSE <<q[i]>> \o sub_from(name, q, i + 1)

re_sub(name, q) == sub_from(name, q, 1)

\* None; a group of site: or filetype: is never empty
None == <<>>

\* re.search(pattern, q): the group of the first match, or None
re_search(name, q) ==
  LET found == re_findall(name, q)
  IN  IF found = <<>> THEN None ELSE found[1]

\* str.split(): the runs of pieces that are not blanks
RECURSIVE split_from(_, _)
split_from(q, i) ==
  IF i > Len(q) THEN <<>>
  ELSE LET n == run_length(q, i, "\\S")
       IN  IF n = 0 THEN split_from(q, i + 1)
           ELSE <<SubSeq(q, i, i + n - 1)>> \o split_from(q, i + n)

split(q) == split_from(q, 1)

\* parse_search_query: each operator is read off the text the operators before
\* it have left
parse_search_query(query) ==
  LET no_phrases == re_sub("quoted", query)
      no_exclusions == re_sub("exclude", no_phrases)
      no_site == re_sub("site", no_exclusions)
      no_filetype == re_sub("filetype", no_site)
      no_intitle == re_sub("intitle", no_filetype)
      no_inurl == re_sub("inurl", no_intitle)
  IN  [exact_phrase |-> re_findall("quoted", query),
       exclude |-> re_findall("exclude", no_phrases),
       site |-> re_search("site", no_exclusions),
       filetype |-> re_search("filetype", no_site),
       intitle |-> re_findall("intitle", no_filetype),
       inurl |-> re_findall("inurl", no_intitle),
       before |-> None,
       after |-> None,
       terms |-> split(no_inurl)]

\* ------------------------------------------------------- app.py: the requests

\* A token of a query: a quoted phrase, -word, site:domain, filetype:ext,
\* intitle:word, inurl:word or a plain word, with its value; "raw" is text that
\* is none of these.
Token(kind, value) == [kind |-> kind, value |-> value]

token_text(token) ==
  CASE token.kind = "phrase" -> <<Quote>> \o token.value \o <<Quote>>
    [] token.kind = "exclude" -> <<"-">> \o token.value
    [] token.kind \in {"site", "filetype", "intitle", "inurl"} ->
         <<token.kind, ":">> \o token.value
    [] OTHER -> token.value

\* the tokens of the home page's examples (index(), "Advanced search
\* examples"), and others of their kinds
Tokens ==
  {Token("phrase", <<"machine", " ", "learning">>),
   Token("exclude", <<"java">>),
   Token("site", <<"stackoverflow", ".", "com">>),
   Token("site", <<"b", ".", "org">>),
   Token("site", <<"my", "-", "site", ".", "com">>),
   Token("filetype", <<"pdf">>),
   Token("intitle", <<"tutorial">>),
   Token("inurl", <<"github">>),
   Token("plain", <<"python">>),
   Token("plain", <<"well", "-", "known">>),
   Token("raw", <<"site", ":">>),
   Token("raw", <<Quote, "open">>),
   Token("raw", <<"intitle", ":", Quote, "x", Quote>>)}

\* the number of tokens of a query
MaxTokens == 3

TokenLists(n) == UNION {[1..k -> Tokens] : k \in 1..n}

\* the query string typed: the tokens with a blank between them
RECURSIVE query_of(_)
query_of(tokens) ==
  IF tokens = <<>> THEN <<>>
  ELSE IF Len(tokens) = 1 THEN token_text(tokens[1])
  ELSE token_text(tokens[1]) \o <<" ">> \o query_of(Tail(tokens))

\* the crawler is not running
NoCrawl ==
  /\ max_workers = 1
  /\ max_pages = 1
  /\ seeds = <<>>
  /\ crawled_urls = {}
  /\ failed_urls = {}
  /\ robots_cache = <<>>
  /\ high_priority_queue = <<>>
  /\ medium_priority_queue = <<>>
  /\ low_priority_queue = <<>>
  /\ stats = InitStats
  /\ pages = {}
  /\ pages_fts = {}
  /\ page_seq = 0
  /\ phase = "search"
  /\ batch_left = 0
  /\ batch_budget = 0
  /\ events = NoEvents
  /\ tasks = <<>>
  /\ harvest = NoHarvest
  /\ get_count = <<>>
  /\ true_saves = <<>>
  /\ all_benign = TRUE
  /\ clear_raised = FALSE
  /\ n_calls = 0

\* search(query, page, time_filter, sort_by) is called, as the /search route
\* calls it, on an index of which some rows match
InitSearch(token_lists, page_numbers, time_filters, sort_keys, match_counts) ==
  /\ NoCrawl
  /\ NoCall
  /\ typed \in token_lists
  /\ request \in [query : {query_of(typed)}, page : page_numbers,
                  time_filter : time_filters, sort_by : sort_keys]
  /\ index_matches \in match_counts
  /\ operators = <<>>
  /\ built = <<>>
  /\ total_results = 0
  /\ result = <<>>
  /\ search_pc = "called"

\* operators = self.parse_search_query(query)
Parse ==
  /\ search_pc = "called"
  /\ operators' = parse_search_query(request.query)
  /\ search_pc' = "parsed"
  /\ UNCHANGED <<crawl_state, call_state, typed, request, index_matches, built,
                 total_results, result>>

\* the parser alone, on every query of up to MaxTokens tokens
NextParse == Parse

SpecParse ==
  InitSearch(TokenLists(MaxTokens), {1}, {""}, {"relevance"}, {0}) /\ [][NextParse]_vars

\* ------------------------------------------------ app.py: build_search_query

\* self.results_per_page
results_per_page == 20

\* f'"{text}"'
quoted(text) == <<Quote>> \o text \o <<Quote>>

\* separator.join(texts)
RECURSIVE join(_, _)
join(texts, separator) ==
  IF texts = <<>> THEN <<>>
  ELSE IF Len(texts) = 1 THEN texts[1]
  ELSE texts[1] \o separator \o join(Tail(texts), separator)

\* fts_conditions with a clause for every inurl term as well
fts_conditions_with_inurl(ops) ==
  [k \in 1..Len(ops.exact_phrase) |-> quoted(ops.exact_phrase[k])]
    \o [k \in 1..Len(ops.intitle) |-> <<"title", ":">> \o quoted(ops.intitle[k])]
    \o [k \in 1..Len(ops.inurl) |-> <<"url", ":">> \o quoted(ops.inurl[k])]

\* fts_conditions: the clauses of the match expression
fts_conditions(ops) ==
  [k \in 1..Len(ops.exact_phrase) |-> quoted(ops.exact_phrase[k])]
    \o (IF ops.terms # <<>>
        THEN <<<<"(">> \o join([k \in 1..Len(ops.terms) |-> quoted(ops.terms[k])],
                                <<" AND ">>) \o <<")">>>>
        ELSE <<>>)
    \o [k \in 1..Len(ops.intitle) |-> <<"title", ":">> \o quoted(ops.intitle[k])]

\* fts_query: ' AND '.join(fts_conditions), or '*'
fts_query(ops) ==
  IF fts_conditions(ops) # <<>> THEN join(fts_conditions(ops), <<" AND ">>) ELSE <<"*">>

\* f"%{text}%"
like_pattern(text) == <<"%">> \o text \o <<"%">>

\* the condition a time filter adds; none for any other value
time_condition(time_filter) ==
  CASE time_filter = "day" -> <<"p.crawled_at > datetime('now', '-1 day')">>
    [] time_filter = "week" -> <<"p.crawled_at > datetime('now', '-7 days')">>
    [] time_filter = "month" -> <<"p.crawled_at > datetime('now', '-1 month')">>
    [] time_filter = "year" -> <<"p.crawled_at > datetime('now', '-1 year')">>
    [] OTHER -> <<>>

\* conditions and the params they bind: site, each inurl term, the time filter
conditions(ops, time_filter) ==
  (IF ops.site # None THEN <<"p.url LIKE ?">> ELSE <<>>)
    \o [k \in 1..Len(ops.inurl) |-> "p.url LIKE ?"]
    \o time_condition(time_filter)

filter_params(ops) ==
  (IF ops.site # None THEN <<like_pattern(ops.site)>> ELSE <<>>)
    \o [k \in 1..Len(ops.inurl) |-> like_pattern(ops.inurl[k])]

order_by(sort_by) == IF sort_by = "date" THEN "p.crawled_at DESC" ELSE "bm25(pages_fts) ASC"

\* offset for a page that counts from 0
offset_of_page_zero_based(page) == page * results_per_page

\* offset = (page - 1) * self.results_per_page
offset_of_page(page) == (page - 1) * results_per_page

\* s[start:] for start >= 0
slice_to_the_end(s, start, stop) == SubSeq(s, start + 1, Len(s))

\* s[start:stop] for start >= 0 and stop < 0
slice(s, start, stop) == SubSeq(s, start + 1, Len(s) + stop)

\* A query is its parts: what it selects, the conditions its WHERE clause
\* ANDs, its ORDER BY and its LIMIT clause.
where_clause(ops, time_filter) == <<"pages_fts MATCH ?">> \o conditions(ops, time_filter)

\* build_search_query: base_query, params, count_query, count_params
build_search_query(ops, page, time_filter, sort_by) ==
  LET params == <<fts_query(ops)>> \o filter_params(ops)
                  \o <<results_per_page, offset_of_page(page)>>
  IN  [base_query |-> [select |-> "p.id, p.url, p.title, snippet, rank, ...",
                       where |-> where_clause(ops, time_filter),
                       order_by |-> order_by(sort_by),
                       limit |-> "LIMIT ? OFFSET ?"],
       params |-> params,
       count_query |-> [select |-> "COUNT(*)",
                        where |-> where_clause(ops, time_filter),
                        order_by |-> "",
                        limit |-> ""],
       count_params |-> <<fts_query(ops)>> \o slice(params, 1, -2)]

\* the "?" of a part of a query
placeholders_in(text) ==
  CASE text \in {"pages_fts MATCH ?", "p.url LIKE ?"} -> 1
    [] text = "LIMIT ? OFFSET ?" -> 2
    [] OTHER -> 0

RECURSIVE sum_placeholders(_)
sum_placeholders(texts) ==
  IF texts = <<>> THEN 0 ELSE placeholders_in(Head(texts)) + sum_placeholders(Tail(texts))

\* the number of values conn.execute(query, params) wants bound
placeholders(query) == sum_placeholders(query.where) + placeholders_in(query.limit)

\* search_query, search_params, count_query, count_params =
\* self.build_search_query(operators, page, time_filter, sort_by)
Build ==
  /\ search_pc = "parsed"
  /\ built' = build_search_query(operators, request.page, request.time_filter,
                                 request.sort_by)
  /\ search_pc' = "built"
  /\ UNCHANGED <<crawl_state, call_state, typed, request, index_matches, operators,
                 total_results, result>>

\* the values the time and sort arguments of the /search route take
TimeFilters == {"", "day", "week", "month", "year", "yesterday"}

SortKeys == {"relevance", "date"}

\* the number of tokens of a query that is built
MaxBuildTokens == 2

NextBuild == Parse \/ Build

\* parser and builder on every query of up to MaxBuildTokens tokens, for the
\* first pages, every time filter and every sort key
SpecBuild ==
  InitSearch(TokenLists(MaxBuildTokens), {1, 2}, TimeFilters, SortKeys, {0})
    /\ [][NextBuild]_vars

\* ------------------------------------------------------------ app.py: search

\* The index is what search is given: index_matches rows satisfy the predicate
\* of the request, and Row(k) is the k-th of them in the ORDER BY order.  A
\* snippet is its first 300 characters (head) and the rest (tail); the time
\* stamps of the rows are left out.
Snippet(head, tail) == [head |-> head, tail |-> tail]

Row(k) ==
  [id |-> k,
   url |-> <<IF k % 2 = 0 THEN "https://a.com" ELSE "https://b.io", "/", "page", "/",
             ToString(k)>>,
   title |-> IF k % 3 = 0 THEN <<"Java", " ", "guide">> ELSE <<"Python", " ", "guide">>,
   snippet |-> IF k % 4 = 0 THEN Snippet(<<"about", " ", "java", "script">>, <<>>)
               ELSE IF k % 4 = 1 THEN Snippet(<<"a", " ", "long", " ", "text">>, <<"java">>)
               ELSE Snippet(<<"a", " ", "text">>, <<>>)]

\* the rows of the index that match, in order
index_rows == [k \in 1..index_matches |-> Row(k)]

\* LIMIT ? OFFSET ? (SQLite takes a negative offset as 0)
limit_offset(rows, limit, offset) ==
  LET skip == IF offset < 0 THEN 0 ELSE offset
  IN  SubSeq(rows, skip + 1, Min(skip + limit, Len(rows)))

\* result['snippet'][:300] + '...' if len(result['snippet']) > 300
clean_snippet(snippet) ==
  IF snippet.tail # <<>> THEN snippet.head \o <<"...">> ELSE snippet.head

\* result['domain'] and the cleaned snippet
with_domain(row) ==
  [id |-> row.id, url |-> row.url, title |-> row.title,
   snippet |-> clean_snippet(row.snippet), domain |-> url_netloc(row.url)]

\* term in text
contains(text, term) ==
  \E i \in 1..(Len(text) - Len(term) + 1) : SubSeq(text, i, i + Len(term) - 1) = term

\* not any(exclude_term.lower() in content_lower for exclude_term in exclude)
kept(row, exclude) ==
  LET content_lower == lower(row.title \o <<" ">> \o row.snippet)
  IN  \A k \in 1..Len(exclude) : ~contains(content_lower, lower(exclude[k]))

\* the exclusion loop
RECURSIVE filtered_results(_, _)
filtered_results(rows, exclude) ==
  IF rows = <<>> THEN <<>>
  ELSE (IF kept(Head(rows), exclude) THEN <<Head(rows)>> ELSE <<>>)
         \o filtered_results(Tail(rows), exclude)

\* math.ceil of a / b rounded down to an integer too early
ceil_rounds_down(a, b) == a \div b

\* math.ceil(a / b) for a >= 0, b > 0
ceil(a, b) == IF a % b = 0 THEN a \div b ELSE a \div b + 1

\* WHERE pages_fts MATCH ?: whether the index takes the expression.  An
\* expression that starts with "*" is read as a special query of the index and
\* rejected ("unknown special query"); an expression of quoted strings, AND and
\* title: is a query.
match_accepted(expression) == expression = <<>> \/ expression[1] # "*"

\* total_results = conn.execute(count_query, count_params).fetchone()[0]
Count ==
  /\ search_pc = "built"
  /\ match_accepted(built.count_params[1])
  /\ total_results' = index_matches
  /\ search_pc' = "counted"
  /\ UNCHANGED <<crawl_state, call_state, typed, request, index_matches, operators,
                 built, result>>

\* a result whose total_results is the size of the filtered page
counts_after_exclusion(results, total, page) ==
  [results |-> results, total_results |-> Len(results),
   total_pages |-> ceil(Len(results), results_per_page), current_page |-> page,
   has_next |-> page < ceil(Len(results), results_per_page),
   has_prev |-> page > 1, error |-> FALSE, message |-> ""]

\* the dictionary search returns
search_result(results, total, page) ==
  [results |-> results, total_results |-> total,
   total_pages |-> ceil(total, results_per_page), current_page |-> page,
   has_next |-> page < ceil(total, results_per_page),
   has_prev |-> page > 1, error |-> FALSE, message |-> ""]

\* the search query, the loops over the rows and the result
Execute ==
  /\ search_pc = "counted"
  /\ match_accepted(built.params[1])
  /\ LET limit == built.params[Len(built.params) - 1]
         offset == built.params[Len(built.params)]
         rows == limit_offset(index_rows, limit, offset)
         results == IF operators.exclude # <<>>
                    THEN filtered_results([k \in 1..Len(rows) |-> with_domain(rows[k])],
                                          operators.exclude)
                    ELSE [k \in 1..Len(rows) |-> with_domain(rows[k])]
     IN  result' = search_result(results, total_results, request.page)
  /\ search_pc' = "returned"
  /\ UNCHANGED <<crawl_state, call_state, typed, request, index_matches, operators,
                 built, total_results>>

\* an error result that keeps what was counted
error_result_with_count(total, message) ==
  [results |-> <<>>, total_results |-> total,
   total_pages |-> ceil(total, results_per_page), current_page |-> 1,
   has_next |-> 1 < ceil(total, results_per_page), has_prev |-> FALSE, error |-> TRUE,
   message |-> message]

\* the result of the except branch; 'error': str(e)
error_result(total, message) ==
  [results |-> <<>>, total_results |-> 0, total_pages |-> 0, current_page |-> 1,
   has_next |-> FALSE, has_prev |-> FALSE, error |-> TRUE, message |-> message]

\* the count query raises because the index rejects the match expression
Reject ==
  /\ search_pc = "built"
  /\ ~match_accepted(built.count_params[1])
  /\ result' = error_result(total_results, "unknown special query: ")
  /\ search_pc' = "returned"
  /\ UNCHANGED <<crawl_state, call_state, typed, request, index_matches, operators,
                 built, total_results>>

\* What the store can answer a statement with, whatever the statement is: the
\* database file cannot be opened, or is locked by a writer.
StoreErrors == {"unable to open database file", "database is locked"}

\* except Exception: get_conn raises (after the parse), the count query raises
\* (after the build), or the search query raises (after the count)
Raise(message) ==
  /\ \/ search_pc = "parsed" /\ message = "unable to open database file"
     \/ search_pc \in {"built", "counted"} /\ message = "database is locked"
  /\ result' = error_result(total_results, message)
  /\ search_pc' = "returned"
  /\ UNCHANGED <<crawl_state, call_state, typed, request, index_matches, operators,
                 built, total_results>>

NextSearch ==
  Parse \/ Build \/ Count \/ Execute \/ Reject \/ \E message \in StoreErrors : Raise(message)

\* the largest page asked for and the largest number of matching rows
MaxPage == 4

MaxMatches == 45

\* the queries searched for
SearchTokenLists ==
  {<<Token("phrase", <<"machine", " ", "learning">>), Token("exclude", <<"java">>),
     Token("site", <<"stackoverflow", ".", "com">>), Token("intitle", <<"tutorial">>)>>,
   <<Token("plain", <<"python">>)>>,
   <<Token("plain", <<"python">>), Token("exclude", <<"java">>)>>,
   <<Token("exclude", <<"java">>)>>}

\* a search for any page on an index with any number of matching rows
SpecSearch ==
  InitSearch(SearchTokenLists, 1..MaxPage, {""}, {"relevance"}, 0..MaxMatches)
    /\ [][NextSearch]_vars

\* a search for the first pages with every value of the time argument, on an
\* index with no, some and more than a page of matching rows
SpecTimeFilter ==
  InitSearch(SearchTokenLists, {1, 2}, TimeFilters, SortKeys, {0, 1, 25})
    /\ [][NextSearch]_vars

\* ------------------------------------------- utils_text.py: normalize_url alone

\* the pieces that follow the origin in the URLs normalize_url is called with
UrlPieces == {"/", "#", "?", "&", "utm_source=", "utm_medium=", "b=", "x", "path"}

\* the number of pieces after the origin
MaxUrlPieces == 4

\* the empty URL and every URL of an origin and up to n pieces
Urls(n) ==
  {<<>>} \cup {<<"https://a.com">> \o rest : rest \in UNION {[1..k -> UrlPieces] : k \in 0..n}}

\* a URL with a trailing slash, a tracking parameter and a fragment:
\* "https://a.com/path/?utm_source=x#frag"
ExampleUrl == <<"https://a.com", "/", "path", "/", "?", "utm_source=", "x", "#", "frag">>

\* normalize_url is called with a URL, and then with what it returned
InitNormalize ==
  /\ NoCrawl
  /\ NoSearch
  /\ given_url \in Urls(MaxUrlPieces) \cup {ExampleUrl}
  /\ returned = <<>>

\* url = normalize_url(url)
Normalize ==
  /\ Len(returned) < 2
  /\ returned' = Append(returned, normalize_url(IF returned = <<>> THEN given_url
                                                  ELSE returned[Len(returned)]))
  /\ UNCHANGED <<crawl_state, search_state, given_url>>

NextNormalize == Normalize

SpecNormalize == InitNormalize /\ [][NextNormalize]_vars

\* ------------------------------------------------ crawler.py: get_priority alone

\* the pieces that follow the origin in the URLs get_priority is called with
ClassifyPieces == {"/", "news", "News", "newsletter", "docs", "learning", "2024", "x"}

\* the number of pieces after the origin
MaxClassifyPieces == 3

ClassifyUrls(n) ==
  {<<"https://a.com">> \o rest : rest \in UNION {[1..k -> ClassifyPieces] : k \in 0..n}}

\* a crawler that has claimed nothing is given a URL
InitClassify ==
  /\ NoCrawl
  /\ NoSearch
  /\ given_url \in ClassifyUrls(MaxClassifyPieces)
  /\ returned = <<>>

\* priority = self.get_priority(url), called twice
Classify ==
  /\ Len(returned) < 2
  /\ returned' = Append(returned, get_priority(given_url))
  /\ UNCHANGED <<crawl_state, search_state, given_url>>

\* self.add_url_to_queue(url), called once
Offer ==
  /\ high_priority_queue \o medium_priority_queue \o low_priority_queue = <<>>
  /\ SetFrontier(add_url_to_queue(CurrentFrontier, crawled_urls, given_url))
  /\ UNCHANGED <<config, search_state, call_state, events, crawled_urls, failed_urls,
                 robots_cache, store, phase, batch_left, batch_budget, tasks, harvest,
                 get_count, true_saves, all_benign, clear_raised, n_calls>>

NextClassify == Classify \/ Offer

SpecClassify == InitClassify /\ [][NextClassify]_vars

\* ------------------------------------------------------------------ claims

AllQueues == high_priority_queue \o medium_priority_queue \o low_priority_queue

QueuesEmpty ==
  high_priority_queue = <<>> /\ medium_priority_queue = <<>> /\ low_priority_queue = <<>>

Distinct(s) == \A i, j \in 1..Len(s) : s[i] = s[j] => i = j

\* C1: in a crawl run, with any number of workers and under any interleaving,
\* the number of pages the run has persisted never exceeds max_pages.
C1_PagesWithinBudget == Cardinality(pages) <= max_pages

\* C1 witness: a run of two workers that ended with the budget used up by saved
\* pages while URLs were still queued.
C1_Witness ==
  phase = "done" /\ max_workers = 2 /\ Cardinality(pages) = max_pages /\ ~QueuesEmpty

\* C2: no URL occurs twice in the frontier, and the same URL offered twice to
\* a fresh frontier leaves one entry for it and adds one to the duplicates
\* counter.
C2_DedupOnOffer ==
  /\ Distinct(AllQueues)
  /\ (phase = "loop" /\ seeds = <<SeedA, SeedA>>) =>
       (AllQueues = <<SeedA>> /\ stats.duplicates = 1)

\* C3: within one run each URL is fetched (session.get issued) at most once.
C3_FetchedAtMostOnce == \A u \in DOMAIN get_count : get_count[u] <= 1

\* C4: no two persisted pages have URLs with the same normalized form.
C4_OnePagePerNormalizedUrl ==
  \A p, q \in pages : normalize_url(p.url) = normalize_url(q.url) => p = q

\* the case of C5: one worker, n = max_pages distinct seeds
C5_Case == max_workers = 1 /\ Len(seeds) = max_pages /\ Distinct(seeds)

\* C5: a crawl with max_pages = n, one worker and n distinct seed URLs that link
\* to nothing and all fetch with savable content ends, and ends with n pages
\* saved, the three queues empty and stats['crawled'] = n.
C5_SeedsOnlyCrawl ==
  /\ [](C5_Case => <>(phase = "done"))
  /\ []((C5_Case /\ all_benign /\ phase = "done") =>
          (Cardinality(pages) = max_pages /\ QueuesEmpty /\ stats.crawled = max_pages))

\* C5 witness: such a run with n = 2, ended.
C5_Witness ==
  C5_Case /\ all_benign /\ phase = "done" /\ max_pages = 2 /\ Cardinality(pages) = 2

\* C6: a run is done only when stats['crawled'] has reached max_pages or the
\* three queues are empty.
C6_DoneOnlyAtBudgetOrExhaustion ==
  phase = "done" => (stats.crawled = max_pages \/ QueuesEmpty)

\* a step of run_massive_crawl that handed a URL to the pool
C7_Took == Len(tasks') = Len(tasks) + 1

C7_Taken == tasks'[Len(tasks')].url

\* the queue q loses its head, gains elements at its end, or is left alone
C7_Fifo(q, r) ==
  \/ q # <<>> /\ r = Tail(q)
  \/ Len(r) >= Len(q) /\ SubSeq(r, 1, Len(q)) = q

\* C7: get_next_url returns the oldest entry of the highest-priority queue that
\* is not empty (queues gain entries at the end only and lose them at the head
\* only), and returns None exactly when the three queues are empty.
C7_TakeOrder ==
  [][/\ C7_Took =>
          IF high_priority_queue # <<>>
          THEN /\ C7_Taken = Head(high_priority_queue)
               /\ high_priority_queue' = Tail(high_priority_queue)
               /\ UNCHANGED <<medium_priority_queue, low_priority_queue>>
          ELSE IF medium_priority_queue # <<>>
          THEN /\ C7_Taken = Head(medium_priority_queue)
               /\ medium_priority_queue' = Tail(medium_priority_queue)
               /\ UNCHANGED <<high_priority_queue, low_priority_queue>>
          ELSE /\ low_priority_queue # <<>>
               /\ C7_Taken = Head(low_priority_queue)
               /\ low_priority_queue' = Tail(low_priority_queue)
               /\ UNCHANGED <<high_priority_queue, medium_priority_queue>>
     /\ (phase = "submit" /\ phase' # "submit" /\ ~C7_Took) => QueuesEmpty
     /\ C7_Fifo(high_priority_queue, high_priority_queue')
     /\ C7_Fifo(medium_priority_queue, medium_priority_queue')
     /\ C7_Fifo(low_priority_queue, low_priority_queue')]_vars

\* C7 witness: a batch that took a high URL, then a medium one, with a low one
\* left queued.
C7_Witness ==
  /\ Len(tasks) >= 2
  /\ get_priority(tasks[1].url) = "high"
  /\ get_priority(tasks[2].url) = "medium"
  /\ low_priority_queue # <<>>

\* the rows of pages that hold url
RowsOf(url) == {p \in pages : p.url = url}

\* C8: of the save_page calls for one URL at most one returns True; the others
\* return False, and the row the first one stored stays as it was stored.
C8_OneTruePerUrl ==
  /\ \A i, j \in 1..Len(true_saves) : true_saves[i].url = true_saves[j].url => i = j
  /\ \A i \in 1..Len(true_saves) :
       \E p \in pages :
         /\ RowsOf(true_saves[i].url) = {p}
         /\ p.title = stored_title(true_saves[i].title)
         /\ p.content = stored_content(true_saves[i].content)
  /\ \A i \in 1..Len(tasks) : tasks[i].saved \in {"none", "true", "short", "exists", "integrity"}

\* C8 witness: two concurrent calls for one URL both found no row; the second
\* INSERT broke the UNIQUE constraint and the call returned False.
C8_Witness == \E i \in 1..Len(tasks) : tasks[i].saved = "integrity"

\* the index entries made for the page p
EntriesOf(p) == {e \in pages_fts : e.page_id = p.id}

\* C9: in every state reached by saves and clear_database, every page has
\* exactly one index entry, carrying its id, title and content, and every index
\* entry belongs to a page.
C9_PagesAndIndexInLockstep ==
  /\ \A p \in pages :
       EntriesOf(p) = {[rowid |-> p.id, page_id |-> p.id, title |-> p.title,
                        content |-> p.content]}
  /\ \A e \in pages_fts : \E p \in pages : e \in EntriesOf(p)

\* C9 witness: clear_database has been called on a store that holds pages.
C9_Witness == clear_raised /\ Cardinality(pages) = 2

\* C10: a save_page call whose content is shorter than 100 characters once
\* trimmed returns False, adds no page and no index entry and leaves the counters
\* as they are; no page or index entry with such a content is ever added.
C10_TooShortIsNotSaved ==
  [][/\ \A i \in 1..Len(tasks) :
          (i <= Len(tasks') /\ tasks'[i].saved = "short" /\ tasks'[i] # tasks[i]) =>
            UNCHANGED <<pages, pages_fts, page_seq, stats>>
     /\ \A p \in pages' \ pages : p.content.chars >= MinContentLen
     /\ \A e \in pages_fts' \ pages_fts : e.content.chars >= MinContentLen]_vars

\* C10 witness: a call with a content of 104 characters, 99 once trimmed, or of
\* 50 characters, has returned False.
C10_Witness == \E i \in 1..Len(tasks) : tasks[i].saved = "short" /\ n_calls = 1

\* a step of run_massive_crawl along Seeding -> Running <-> Draining -> Done:
\* "loop" is the test of the while loop, "submit" the filling of a batch
\* (Running), "harvest" the as_completed loop (Draining)
C11_PhaseStep ==
  \/ phase' = phase
  \/ phase = "seeding" /\ phase' = "loop"
  \/ phase = "loop" /\ phase' \in {"submit", "done"}
  \/ phase = "submit" /\ phase' \in {"harvest", "done"}
  \/ phase = "harvest" /\ phase' \in {"submit", "done"}

\* C11: every crawl run, whatever the seed list and the links of the pages
\* (links back to URLs already seen included), reaches Done when every fetch
\* returns and the workers are scheduled fairly; it goes from Seeding to
\* Running, between Running and Draining, then to Done, never back to Seeding,
\* and stays Done.
C11_RunReachesDone ==
  /\ <>(phase = "done")
  /\ [][C11_PhaseStep]_vars

\* C11 witness: a run of two workers from distinct seeds has ended after a page
\* that links to an URL already claimed was fetched and the link was offered.
C11_Witness ==
  /\ phase = "done"
  /\ max_workers = 2
  /\ Distinct(seeds)
  /\ stats.duplicates >= 1
  /\ pages # {}

\* C12: a check_robots_txt call that fails to read robots.txt returns True and
\* leaves that answer in robots_cache for the host (so that no later call for
\* the host reads robots.txt again).
C12_RobotsFailureIsCached ==
  [][\A i \in 1..Len(tasks) :
       (i <= Len(tasks') /\ tasks[i].pc = "robots_read" /\ tasks'[i].pc = "get") =>
         /\ url_netloc(tasks[i].url) \in DOMAIN robots_cache'
         /\ robots_cache'[url_netloc(tasks[i].url)]]_vars

\* C13: a fetch that ends in an exception (network error, timeout) or in a
\* response that is not HTML or is larger than 5 MB adds exactly one to
\* stats['failed'], stores no page and hands no links back.
C13_FailedFetchIsCounted ==
  [][\A i \in 1..Len(tasks) :
       (/\ i <= Len(tasks')
        /\ tasks[i].pc \in {"rejected", "failed_write"}
        /\ tasks'[i].pc = "finished") =>
         /\ stats'.failed = stats.failed + 1
         /\ tasks'[i].ret = <<>>
         /\ pages' = pages]_vars

\* C14: session.get is issued only by a call that has passed the robots check;
\* a call whose URL robots.txt disallows issues no GET, adds exactly one to
\* stats['robots_blocked'], leaves stats['failed'] and stats['crawled'] alone,
\* stores no page and hands no links back.
C14_RobotsBeforeGet ==
  [][\A i \in 1..Len(tasks) :
       i <= Len(tasks') =>
         /\ (tasks'[i].pc = "get" /\ tasks[i].pc # "get") =>
              tasks[i].pc \in {"robots", "robots_read"}
         /\ tasks[i].pc \in {"blocked", "blocked_write"} =>
              /\ tasks'[i].pc \in {"blocked", "blocked_write", "finished"}
              /\ tasks'[i].url = tasks[i].url
         /\ (tasks[i].pc \in {"blocked", "blocked_write"} /\ tasks'[i] # tasks[i]) =>
              /\ get_count' = get_count
              /\ pages' = pages
              /\ stats'.failed = stats.failed
              /\ stats'.crawled = stats.crawled
         /\ (tasks[i].pc = "blocked_write" /\ tasks'[i].pc = "finished") =>
              /\ stats'.robots_blocked = stats.robots_blocked + 1
              /\ tasks'[i].ret = <<>>]_vars

\* C15: at every point of a run, interrupted or not, every save_page call that
\* returned True has its page in the store with its index entry, no page is
\* without its index entry, and the interruption itself leaves the store as it
\* is while the frontier, crawled_urls and the counters are gone.
C15_SavedPagesSurviveInterrupt ==
  /\ [](/\ \A k \in 1..Len(true_saves) :
             \E p \in pages :
               /\ p.url = true_saves[k].url
               /\ p.title = stored_title(true_saves[k].title)
               /\ p.content = stored_content(true_saves[k].content)
          /\ \A q \in pages :
               \E e \in pages_fts :
                 e.page_id = q.id /\ e.title = q.title /\ e.content = q.content)
  /\ [][phase' = "interrupted" =>
          /\ UNCHANGED <<pages, pages_fts, page_seq>>
          /\ QueuesEmpty' /\ crawled_urls' = {} /\ stats' = InitStats]_vars

\* C15 witness: a run was interrupted after it had saved a page and before it
\* had used its budget up.
C15_Witness ==
  phase = "interrupted" /\ Cardinality(pages) = 1 /\ max_pages = 2

\* the values of the tokens of a kind, in the order typed
RECURSIVE values_of(_, _)
values_of(tokens, kind) ==
  IF tokens = <<>> THEN <<>>
  ELSE (IF Head(tokens).kind = kind THEN <<Head(tokens).value>> ELSE <<>>)
         \o values_of(Tail(tokens), kind)

WellFormed(tokens) == \A k \in 1..Len(tokens) : tokens[k].kind # "raw"

\* the value of site: or filetype: is the value of a token of that kind, None
\* when there is none
C16_Single(field, kind) ==
  IF values_of(typed, kind) = <<>> THEN field = None
  ELSE field \in Range(values_of(typed, kind))

\* C16: for a query of well-formed tokens with a blank between them,
\* parse_search_query gives the phrases as exact_phrase, the words of the -word
\* tokens as exclude, the values of site: and filetype: in their fields, the
\* words of intitle: and inurl: in their lists, and as terms the plain words in
\* the order typed ("machine learning" -java site:stackoverflow.com
\* intitle:tutorial has no terms).
C16_WellFormedTokensParsed ==
  (search_pc = "parsed" /\ WellFormed(typed)) =>
    /\ operators.exact_phrase = values_of(typed, "phrase")
    /\ operators.exclude = values_of(typed, "exclude")
    /\ C16_Single(operators.site, "site")
    /\ C16_Single(operators.filetype, "filetype")
    /\ operators.intitle = values_of(typed, "intitle")
    /\ operators.inurl = values_of(typed, "inurl")
    /\ operators.terms = values_of(typed, "plain")

\* s and t hold the same values the same number of times
SameBag(s, t) ==
  /\ Len(s) = Len(t)
  /\ \A x \in Range(s) :
       Cardinality({k \in 1..Len(s) : s[k] = x}) = Cardinality({k \in 1..Len(t) : t[k] = x})

\* the orders the tokens can be typed in
Orders(n) == {f \in [1..n -> 1..n] : \A i, j \in 1..n : f[i] = f[j] => i = j}

\* C17: the same well-formed tokens typed in any other order parse to the same
\* site and filetype and to the same exact_phrase, exclude, intitle, inurl and
\* terms up to their order, also when site: or filetype: is typed more than
\* once.
C17_TokenOrderIrrelevant ==
  (search_pc = "parsed" /\ WellFormed(typed)) =>
    \A f \in Orders(Len(typed)) :
      LET other == parse_search_query(query_of([k \in 1..Len(typed) |-> typed[f[k]]]))
      IN  /\ other.site = operators.site
          /\ other.filetype = operators.filetype
          /\ SameBag(other.exact_phrase, operators.exact_phrase)
          /\ SameBag(other.exclude, operators.exclude)
          /\ SameBag(other.intitle, operators.intitle)
          /\ SameBag(other.inurl, operators.inurl)
          /\ SameBag(other.terms, operators.terms)

\* the clauses C18 names: a quoted clause for each exact phrase, one clause
\* that ANDs the quoted plain terms when there are any, a title-scoped clause
\* for each intitle term
C18_Clauses(ops) ==
  [k \in 1..Len(ops.exact_phrase) |-> <<Quote>> \o ops.exact_phrase[k] \o <<Quote>>]
    \o (IF Len(ops.terms) >= 1
        THEN <<<<"(">> \o join([k \in 1..Len(ops.terms) |->
                                  <<Quote>> \o ops.terms[k] \o <<Quote>>], <<" AND ">>)
                \o <<")">>>>
        ELSE <<>>)
    \o [k \in 1..Len(ops.intitle) |->
          <<"title", ":", Quote>> \o ops.intitle[k] \o <<Quote>>]

\* C18: the match expression bound to the query is the AND of exactly those
\* clauses; it is the wildcard exactly when there is no phrase, no term and no
\* intitle term; site, inurl, exclude and filetype add nothing to it.
C18_MatchExpression ==
  search_pc = "built" =>
    /\ built.params[1] =
         IF C18_Clauses(operators) = <<>> THEN <<"*">>
         ELSE join(C18_Clauses(operators), <<" AND ">>)
    /\ (built.params[1] = <<"*">>) <=>
         (operators.exact_phrase = <<>> /\ operators.terms = <<>>
            /\ operators.intitle = <<>>)
    /\ built.params[1] =
         build_search_query([operators EXCEPT !.site = None, !.inurl = <<>>,
                                              !.exclude = <<>>, !.filetype = None],
                            request.page, request.time_filter,
                            request.sort_by).params[1]

\* C18 witness: a query of a plain word and an intitle: token, and one of a
\* phrase and a site: filter, have been built.
C18_Witness ==
  /\ search_pc = "built"
  /\ WellFormed(typed)
  /\ \/ operators.terms # <<>> /\ operators.intitle # <<>>
     \/ operators.exact_phrase # <<>> /\ operators.site # None

\* C19: the count query has the predicate of the search query and no LIMIT
\* clause; its parameters are the match expression followed by the filter
\* parameters, which are the search parameters without the last two (limit and
\* offset); each query binds as many parameters as it has placeholders; the
\* count query and its parameters do not depend on the page.
C19_CountQueryAgrees ==
  search_pc = "built" =>
    /\ built.count_query.where = built.base_query.where
    /\ built.count_query.limit = ""
    /\ built.base_query.limit = "LIMIT ? OFFSET ?"
    /\ built.count_params = SubSeq(built.params, 1, Len(built.params) - 2)
    /\ built.count_params[1] = fts_query(operators)
    /\ Len(built.params) = placeholders(built.base_query)
    /\ Len(built.count_params) = placeholders(built.count_query)
    /\ \A page \in {1, 2, 3} :
         LET other == build_search_query(operators, page, request.time_filter,
                                         request.sort_by)
         IN  /\ other.count_query = built.count_query
             /\ other.count_params = built.count_params

\* C19 witness: a query with a site: filter, an inurl: filter and a time filter
\* has been built for page 2.
C19_Witness ==
  /\ search_pc = "built"
  /\ WellFormed(typed)
  /\ operators.site # None
  /\ operators.inurl # <<>>
  /\ request.time_filter = "week"
  /\ request.page = 2

C21_Kept ==
  {k \in 1..index_matches :
     /\ (request.page - 1) * 20 < k
     /\ k <= request.page * 20
     /\ \A t \in Range(operators.exclude) :
          ~contains(lower(Row(k).title \o <<" ">> \o clean_snippet(Row(k).snippet)),
                    lower(t))}

\* what a returned search answers: the kept rows of the slice in their fetched
\* order, with the count and the pages of before the exclusion
C21_FilteredSlice ==
  (search_pc = "returned" /\ ~result.error) =>
    /\ {result.results[i].id : i \in 1..Len(result.results)} = C21_Kept
    /\ \A i, j \in 1..Len(result.results) :
         i < j => result.results[i].id < result.results[j].id
    /\ \A i \in 1..Len(result.results) :
         result.results[i] = with_domain(Row(result.results[i].id))
    /\ result.total_results = index_matches
    /\ result.total_pages = ceil(index_matches, 20)

\* C21: the results of a page are exactly the rows of the fetched slice whose
\* lowercased title plus snippet holds no excluded term, in their fetched order,
\* with total_results and total_pages as counted before the exclusion; and a
\* query of only an excluded term is answered so too, its match expression being
\* the wildcard: no search fails on its own match expression.
C21_ExclusionAfterFetch ==
  /\ C21_FilteredSlice
  /\ search_pc = "returned" => result.message # "unknown special query: "

\* the number of rows of the page's slice: from offset (page - 1) * 20, at most 20
C22_SliceSize ==
  LET rest == index_matches - (request.page - 1) * 20
  IN  IF rest < 0 THEN 0 ELSE Min(rest, 20)

\* C22: a search in which a step has failed (opening the store, the count
\* query, the search query) returns the error result: no rows, total_results 0,
\* total_pages 0, has_next and has_prev false, whatever had been counted before
\* the failure; a result without an error carries the count together with its
\* rows.
C22_ErrorResultIsWhole ==
  search_pc = "returned" =>
    /\ result.error =>
         /\ result.results = <<>>
         /\ result.total_results = 0
         /\ result.total_pages = 0
         /\ ~result.has_next
         /\ ~result.has_prev
    /\ ~result.error =>
         /\ result.total_results = index_matches
         /\ Len(result.results) <= C22_SliceSize
         /\ operators.exclude = <<>> => Len(result.results) = C22_SliceSize

\* C22 witness: the count query had counted matching rows of more than one page
\* when the search query failed, and the error result has been returned.
C22_Witness ==
  /\ search_pc = "returned"
  /\ result.error
  /\ result.message = "database is locked"
  /\ total_results > 20
  /\ result.total_results = 0

\* the domain-suffix bonus tier of a domain: .com, .org and .net have the bonus
C23_DomainTier(domain) == IF domain \in {"a.com", "facebook.com"} THEN 1 ELSE 0

\* C23: for sort=relevance, of two returned results with different domain-bonus
\* tiers the one of the higher tier comes first, whatever order the index gave
\* the rows in.
C23_HigherTierFirst ==
  (search_pc = "returned" /\ ~result.error /\ request.sort_by = "relevance") =>
    \A i, j \in 1..Len(result.results) :
      i < j => C23_DomainTier(result.results[i].domain)
                 >= C23_DomainTier(result.results[j].domain)

\* C24: normalize is idempotent: normalizing what normalize returned gives the
\* same URL again, also for a URL with a trailing slash before a fragment or a
\* tracking parameter.
C24_NormalizeIdempotent == Len(returned) = 2 => returned[2] = returned[1]

\* every "&" of a URL comes after a "?": its parameters form a query string
C25_ValidQuery(u) ==
  \A i \in 1..Len(u) : u[i] = "&" => \E j \in 1..(i - 1) : u[j] = "?"

\* C25: what normalize returns has no fragment, no trailing slash, none of the
\* tracking parameters and no dangling "?" or "&", its parameters still form a
\* query string when those of the URL given did, and
\* normalize("https://a.com/path/?utm_source=x#frag") = "https://a.com/path".
C25_NormalForm ==
  Len(returned) >= 1 =>
    LET out == returned[1]
    IN  /\ "#" \notin Range(out)
        /\ out # <<>> => out[Len(out)] \notin {"/", "?", "&"}
        /\ \A i \in 1..(Len(out) - 1) :
             out[i] \in {"?", "&"} => out[i + 1] \notin Range(tracking_params)
        /\ C25_ValidQuery(given_url) => C25_ValidQuery(out)
        /\ given_url = ExampleUrl => out = <<"https://a.com", "/", "path">>

\* the pieces of a URL that hold a recency keyword, and a documentation keyword
C26_RecencyPieces == {"news", "News", "newsletter", "2024"}

C26_DocumentationPieces == {"docs", "learning"}

\* the tier the claim gives a URL
C26_Tier(u) ==
  IF Range(u) \cap C26_RecencyPieces # {} THEN "high"
  ELSE IF Range(u) \cap C26_DocumentationPieces # {} THEN "medium"
  ELSE "low"

C27_Queued ==
  Len(high_priority_queue) + Len(medium_priority_queue) + Len(low_priority_queue)

\* a step of a call of crawl_single_url: the call moves on, and not by the
\* as_completed loop marking it
C27_WorkerStep ==
  /\ Len(tasks') = Len(tasks)
  /\ \E i \in 1..Len(tasks) :
       tasks'[i].pc # tasks[i].pc /\ tasks'[i].pc # "harvested"

\* C27: every step that takes entries out of the queues takes one entry, the head
\* of a queue, and hands it to one new task, leaving the tasks there are as they
\* are; every new task comes from such a step; and no step of a worker's call
\* changes a queue.
C27_OneTaskPerDequeue ==
  [][/\ C27_Queued' < C27_Queued =>
          /\ C27_Queued' = C27_Queued - 1
          /\ Len(tasks') = Len(tasks) + 1
          /\ SubSeq(tasks', 1, Len(tasks)) = tasks
          /\ tasks'[Len(tasks')] = Task(tasks'[Len(tasks')].url)
          /\ \/ /\ high_priority_queue # <<>>
                /\ tasks'[Len(tasks')].url = Head(high_priority_queue)
                /\ high_priority_queue' = Tail(high_priority_queue)
             \/ /\ medium_priority_queue # <<>>
                /\ tasks'[Len(tasks')].url = Head(medium_priority_queue)
                /\ medium_priority_queue' = Tail(medium_priority_queue)
             \/ /\ low_priority_queue # <<>>
                /\ tasks'[Len(tasks')].url = Head(low_priority_queue)
                /\ low_priority_queue' = Tail(low_priority_queue)
     /\ Len(tasks') > Len(tasks) => C27_Queued' = C27_Queued - 1
     /\ C27_WorkerStep => UNCHANGED queues]_vars

\* C27 witness: two entries have been handed to two tasks, both running on
\* workers, while another entry waits in a queue.
C27_Witness ==
  /\ Len(tasks) = 2
  /\ Running = {1, 2}
  /\ C27_Queued > 0

\* the tasks submitted and not finished
C28_Unfinished ==
  Cardinality({i \in 1..Len(tasks) : tasks[i].pc \notin {"finished", "harvested"}})

C29_Offering == phase = "harvest" /\ harvest.fut # 0 /\ harvest.checked

C29_Offered == tasks[harvest.fut].ret[harvest.pos]

\* C29: crawled_urls never loses a URL, and an offer of a URL that is in it (its
\* fetch may have failed or been blocked) leaves the three queues as they are
\* and adds one to duplicates.
C29_ClaimedIsNeverQueuedAgain ==
  [][/\ crawled_urls \subseteq crawled_urls'
     /\ (C29_Offering /\ harvest' # harvest /\ C29_Offered \in crawled_urls) =>
          /\ UNCHANGED queues
          /\ stats'.duplicates = stats.duplicates + 1]_vars

\* C29 witness: the fetch of a URL has failed, the URL has been offered again
\* from the page of another URL and counted as a duplicate, and is in no queue.
C29_Witness ==
  /\ stats.failed = 1
  /\ stats.duplicates = 1
  /\ stats.crawled = 1
  /\ SeedNews \in crawled_urls
  /\ \A p \in pages : p.url # SeedNews
  /\ SeedNews \notin Range(AllQueues)
  /\ phase = "harvest"

\* C30: in every reachable state every URL in a queue, seed or discovered link,
\* is its own normal form and passes is_valid_url.
C30_QueuedUrlsNormalizedAndValid ==
  \A u \in Range(AllQueues) : normalize_url(u) = u /\ is_valid_url(u)

\* ------------------------------------------------------------------- C31

\* the hosts of the URLs the run has claimed
C31_Hosts == {url_netloc(u) : u \in crawled_urls}

\* a call of check_robots_txt for a URL of the host has returned True: the call
\* of fetch_url is at its GET or has issued it
C31_Allowed(host) ==
  \/ \E i \in 1..Len(tasks) : url_netloc(tasks[i].url) = host /\ tasks[i].pc = "get"
  \/ \E u \in DOMAIN get_count : url_netloc(u) = host

\* a call of check_robots_txt for a URL of the host has returned False: the URL
\* is claimed, no GET was issued for it and no call for it is still on its way
\* to one
C31_Denied(host) ==
  \E u \in crawled_urls :
    /\ url_netloc(u) = host
    /\ u \notin DOMAIN get_count
    /\ \A i \in 1..Len(tasks) :
         tasks[i].url = u => tasks[i].pc \notin {"robots", "robots_read", "get"}

\* C31: within one run the answers of check_robots_txt for a host agree: no
\* host has had a URL allowed and a URL denied, also when two workers miss the
\* cache for the host at the same time.
C31_RobotsAnswersAgree ==
  \A host \in C31_Hosts : ~(C31_Allowed(host) /\ C31_Denied(host))

\* ------------------------------------------------------------------- C32

\* C32: at the start of every crawl run, a second run_massive_crawl on the same
\* object included, crawled, failed, duplicates and robots_blocked are all zero.
C32_CountersStartAtZero == phase = "seeding" => stats = InitStats

\* ------------------------------------------------------------------- C33

\* the anchors of a page, in document order, normalized, those that
\* is_valid_url turns down left out
C33_Crawlable(hrefs) ==
  SelectSeq([k \in 1..Len(hrefs) |-> normalize_url(hrefs[k])],
            LAMBDA u : is_valid_url(u))

\* the first 20 of them
C33_FirstTwenty(hrefs) ==
  LET found == C33_Crawlable(hrefs)
  IN  IF Len(found) <= 20 THEN found ELSE SubSeq(found, 1, 20)

\* the URL the as_completed loop is at
C33_NewUrl == tasks[harvest.fut].ret[harvest.pos]

\* a step that adds to a queue or counts a duplicate
C33_OfferStep == AllQueues' # AllQueues \/ stats'.duplicates # stats.duplicates

C34_CountersAreExact ==
  phase = "done" =>
    /\ stats.crawled = Len(true_saves)
    /\ stats.crawled = Cardinality(pages)
    /\ stats.failed = events.raised
    /\ stats.robots_blocked = events.blocked

\* ------------------------------------------------------------------- C35

\* C35: in every state of a run crawled + failed + robots_blocked is at most
\* the number of claimed URLs, which is at most max_pages.
C35_CountersWithinClaims ==
  /\ stats.crawled + stats.failed + stats.robots_blocked <= Cardinality(crawled_urls)
  /\ Cardinality(crawled_urls) <= max_pages

\* ------------------------------------------------------------------- C36

\* C36: exclude holds exactly the words of the tokens that begin with "-"; a
\* hyphen inside a plain word or inside the value of site: or inurl: adds no
\* exclusion and leaves the parsed value of that token as it was typed.
C36_HyphenInsideAToken ==
  (search_pc = "parsed" /\ WellFormed(typed)) =>
    /\ operators.exclude = values_of(typed, "exclude")
    /\ \A k \in 1..Len(typed) :
         /\ typed[k].kind = "plain" => typed[k].value \in Range(operators.terms)
         /\ typed[k].kind = "inurl" => typed[k].value \in Range(operators.inurl)
    /\ values_of(typed, "site") # <<>> =>
         operators.site \in Range(values_of(typed, "site"))

\* ------------------------------------------------------------------- C37

\* the names of the operators that are written with a colon
C37_Prefixes == {"site", "filetype", "intitle", "inurl"}

\* C37: for every query string no element of terms holds a double quote,
\* begins with "-" or begins with site:, filetype:, intitle: or inurl:.
C37_NoOperatorSyntaxInTerms ==
  search_pc = "parsed" =>
    \A k \in 1..Len(operators.terms) :
      LET term == operators.terms[k]
      IN  /\ Quote \notin Range(term)
          /\ term[1] # "-"
          /\ ~(Len(term) >= 2 /\ term[1] \in C37_Prefixes /\ term[2] = ":")

\* ------------------------------------------------------------------- C38

\* the values of the time argument that name a window, and none
C38_WellFormed == {"", "day", "week", "month", "year"}

\* C38: a search whose time filter is malformed returns the error result, with
\* no results, zero matches and zero pages.
C38_MalformedTimeFilterIsAnError ==
  (search_pc = "returned" /\ request.time_filter \notin C38_WellFormed) =>
    /\ result.error
    /\ result.results = <<>>
    /\ result.total_results = 0
    /\ result.total_pages = 0

====
